---- MODULE Spec2Model ----
(***************************************************************************)
(* vsTaskViewer: a model of the HTTP surface (token verification, the      *)
(* submission, viewer and attach endpoints), of the task lifecycle         *)
(* (launch, timeout engine, completion cleanup) and of the log tailer.     *)
(*                                                                         *)
(* Three groups of specifications share the variables below:               *)
(*   Spec      the HTTP surface: requests arrive, one handler runs on each *)
(*   LifeSpec  the lifecycle of a launched task (LifeFair adds fairness)   *)
(*   TailSpec  one tailer following one output file and its writer         *)
(***************************************************************************)
EXTENDS Integers, Sequences, FiniteSets, TLC

VARIABLES
    runningTasks,   \* TaskManager.runningTasks: task id -> RunningTask
    dirs,           \* the output directories that exist under the task root
    usedIds,        \* the identifiers uuid.New() has handed out
    attached,       \* connection -> the task whose sink it is ("" when free)
    req,            \* the request being served (HTTP surface)
    resp,           \* the response to it
    proc,           \* task id -> the state of the task's process
    age,            \* task id -> ticks since start (run) and since TERM (term)
    sigLog,         \* task id -> the signals delivered to its process, in order
    eng,            \* connection -> the Timeout Engine of that attach
    frames,         \* connection -> the frames written to its sink
    file,           \* the tailed file: the bytes on disk
    tail,           \* the tailer's control state
    emitted,        \* the records the tailer wrote to its sink
    allowedOrigins, \* config.Server.AllowedOrigins
    up,             \* the server is running (no shutdown yet)
    wr,             \* connection -> safeConn.mu and where each writer stands
    fn,             \* a function of the program under evaluation: input, result
    wsm,            \* the WebSocketManager: its connections, its broadcast
    rl              \* the RateLimiter: requestsPerMinute and the buckets

vars == <<runningTasks, dirs, usedIds, attached, req, resp, proc, age,
          sigLog, eng, frames, file, tail, emitted, allowedOrigins, up,
          wr, fn, wsm, rl>>

taskVars == <<runningTasks, dirs, usedIds, proc, age>>
sinkVars == <<attached, eng, frames>>
tailVars == <<file, tail, emitted>>

(***************************************************************************)
(* Bounds of the model.                                                    *)
(***************************************************************************)
MaxTasks == 2       \* identifiers available to uuid.New()
MaxLifeTasks == 1   \* tasks launched in the lifecycle specifications
MaxConns == 1       \* connections that can be attached at once
MaxClock == 2       \* token expiries range over 0..MaxClock
Now == 1            \* time.Now() when a request is handled
MaxFileLen == 3     \* bytes the writer appends to the tailed file
WaitTries == 2      \* the 60 one-second tries of the wait for the file
MaxExec == 2        \* max_execution_time of the task "sleepy", in clock ticks
GraceTicks == 2     \* the 30 s soft-to-hard grace window, in clock ticks
PidWaitTicks == 1   \* the 60 s wait for the PID file, in clock ticks

TaskIds == {"id1", "id2", "id3", "id4"}
IdOrder == <<"id1", "id2", "id3", "id4">>
IdPool == {IdOrder[i] : i \in 1..MaxTasks}
Conns == 1..MaxConns

Range(s) == {s[i] : i \in DOMAIN s}

(***************************************************************************)
(* Token Authority                                                         *)
(***************************************************************************)

\* The request bodies considered: JSON texts as token sequences.  " " is
\* insignificant whitespace.
BodyEcho      == <<"{", "task_name", ":", "echo", "}">>
BodyEchoSpace == <<"{", " ", "task_name", ":", " ", "echo", " ", "}">>
BodyOther     == <<"{", "task_name", ":", "other", "}">>
BodyTwoKeys   == <<"{", "task_name", ":", "echo", ",", "parameters", ":", "{}", "}">>
BodyBroken    == <<"{", "task_name", ":", "echo">>
BodyBadName   == <<"{", "task_name", ":", "a/b", "}">>
Bodies == {BodyEcho, BodyEchoSpace, BodyOther, BodyTwoKeys, BodyBroken,
           BodyBadName}

\* Object keys in the order json.Marshal writes them (sorted).
KeyOrder == <<"parameters", "task_name">>
JsonKeys == Range(KeyOrder)

StripWs(text) == SelectSeq(text, LAMBDA tk : tk # " ")

\* json.Unmarshal into interface{}: a flat object  { k : v (, k : v)* }.
\* Yields [ok, obj] with obj a function from the keys present to values; a
\* repeated key keeps its last value.
JsonWellFormed(s) ==
    /\ Len(s) >= 2
    /\ s[1] = "{"
    /\ s[Len(s)] = "}"
    /\ \/ Len(s) = 2
       \/ /\ (Len(s) - 1) % 4 = 0
          /\ \A g \in 0..((Len(s) - 1) \div 4 - 1) :
                /\ s[2 + 4 * g] \in JsonKeys
                /\ s[3 + 4 * g] = ":"
                /\ s[4 + 4 * g] \notin {"{", "}", ":", ","}
                /\ s[5 + 4 * g] = (IF g = (Len(s) - 1) \div 4 - 1 THEN "}" ELSE ",")

JsonMembers(s) == IF Len(s) = 2 THEN 0 ELSE (Len(s) - 1) \div 4

JsonObject(s) ==
    LET n == JsonMembers(s)
        keys == {s[2 + 4 * g] : g \in 0..(n - 1)}
        last(k) == CHOOSE g \in 0..(n - 1) :
                      /\ s[2 + 4 * g] = k
                      /\ \A h \in 0..(n - 1) : s[2 + 4 * h] = k => h <= g
    IN  [k \in keys |-> s[4 + 4 * last(k)]]

RECURSIVE MarshalFrom(_, _, _)
MarshalFrom(obj, i, first) ==
    IF i > Len(KeyOrder) THEN <<>>
    ELSE IF KeyOrder[i] \in DOMAIN obj
         THEN (IF first THEN <<>> ELSE <<",">>)
              \o <<KeyOrder[i], ":", obj[KeyOrder[i]]>>
              \o MarshalFrom(obj, i + 1, FALSE)
         ELSE MarshalFrom(obj, i + 1, first)

\* json.Marshal of a decoded object: compact, keys sorted.
JsonMarshal(obj) == <<"{">> \o MarshalFrom(obj, 1, TRUE) \o <<"}">>

\* A normalisation that only drops the whitespace and keeps the members as
\* the client wrote them.
normalizeCompactOnly(data) ==
    LET s == StripWs(data)
    IN  IF JsonWellFormed(s)
        THEN [ok |-> TRUE, bytes |-> s]
        ELSE [ok |-> FALSE, bytes |-> <<>>]

\* normalizeJSON: parse and re-encode; an error when the text is not JSON.
normalizeJSON(data) ==
    LET s == StripWs(data)
    IN  IF JsonWellFormed(s)
        THEN [ok |-> TRUE, bytes |-> JsonMarshal(JsonObject(s))]
        ELSE [ok |-> FALSE, bytes |-> <<>>]

\* computeSHA1Hex: the digest is modelled as collision free: the digest of
\* a text is the text itself, tagged.
computeSHA1Hex(data) == <<"sha1">> \o data

NoHash == <<>>
Hashes == {NoHash, computeSHA1Hex(BodyEcho), computeSHA1Hex(BodyEchoSpace),
           computeSHA1Hex(BodyOther), computeSHA1Hex(BodyBadName)}

\* The aud claim as jwt.ClaimStrings: a list of strings.
AudLists == {<<>>, <<"">>, <<"viewer">>, <<"", "viewer">>, <<"viewer", "">>}

\* exp as *jwt.NumericDate: <<>> is nil (claim absent).
ExpValues == {<<>>} \cup {<<n>> : n \in 0..MaxClock}

\* A token string, seen by what parsing finds in it.  present = FALSE is
\* the empty token parameter.
Tokens ==
    {t \in [present : {TRUE}, alg : {"HS256", "RS256"}, sigOK : BOOLEAN,
            ExpiresAt : ExpValues, Audience : AudLists,
            TaskID : {""} \cup IdPool, BodySHA1 : Hashes] :
        t.alg = "RS256" => t.sigOK}

MissingToken ==
    [present |-> FALSE, alg |-> "HS256", sigOK |-> FALSE, ExpiresAt |-> <<>>,
     Audience |-> <<>>, TaskID |-> "", BodySHA1 |-> NoHash]

\* The expectedAudience argument: <<>> is nil, <<"">> the API audience.
AudNil    == <<>>
AudApi    == <<"">>
AudViewer == <<"viewer">>

\* jwt.ParseWithClaims with the key function of validateJWT: the signing
\* method must be HMAC, the signature must verify under the secret, and the
\* library's claims validation rejects a token whose exp is present and not
\* after now (exp is not required by default).
ParseWithClaims(t, now) ==
    /\ t.alg = "HS256"
    /\ t.sigOK
    /\ (t.ExpiresAt # <<>> => now < t.ExpiresAt[1])

\* The audience policy of validateJWT.
AudienceOK(aud, expected) ==
    IF expected = AudNil THEN TRUE
    ELSE IF expected[1] = ""
         THEN ~(Len(aud) > 0 /\ aud[1] # "")
         ELSE ~(Len(aud) = 0 \/ aud[1] # expected[1])

\* validateJWT: "ok" or the error.
validateJWT(t, now, expected) ==
    IF ~t.present THEN "missing token parameter"
    ELSE IF ~ParseWithClaims(t, now) THEN "failed to parse token"
    ELSE IF t.ExpiresAt # <<>> /\ t.ExpiresAt[1] < now THEN "token expired"
    ELSE IF ~AudienceOK(t.Audience, expected) THEN "token audience mismatch"
    ELSE "ok"

(***************************************************************************)
(* Validator and Supervisor                                                *)
(***************************************************************************)

\* The characters of the task names that occur in requests.
NameChars(name) ==
    CASE name = "echo"   -> <<"e", "c", "h", "o">>
      [] name = "sleepy" -> <<"s", "l", "e", "e", "p", "y">>
      [] name = "other"  -> <<"o", "t", "h", "e", "r">>
      [] name = "a/b"    -> <<"a", "/", "b">>
      [] OTHER           -> <<>>

maxTaskNameLength == 100

NameAlphabet == {"a", "b", "c", "e", "h", "l", "o", "p", "r", "s", "t", "y",
                 "_", "-"}

\* validateTaskName: "ok" or the error.
validateTaskName(name) ==
    LET cs == NameChars(name)
    IN  IF cs = <<>> THEN "task name cannot be empty"
        ELSE IF Len(cs) > maxTaskNameLength THEN "task name too long"
        ELSE IF \E i \in DOMAIN cs : cs[i] \notin NameAlphabet
             THEN "task name contains invalid characters"
        ELSE "ok"

\* config.Tasks: name -> max_execution_time, in clock ticks.
ConfigTasks == [n \in {"echo", "sleepy"} |-> IF n = "sleepy" THEN MaxExec ELSE 0]

\* uuid.New(): an identifier never handed out before.
FreshIds == IdPool \ usedIds
NewUUID == IdOrder[CHOOSE i \in 1..MaxTasks :
                      /\ IdOrder[i] \in FreshIds
                      /\ \A j \in 1..(i - 1) : IdOrder[j] \notin FreshIds]

\* The points at which StartTask can fail for reasons of the environment.
Faults == {"none", "mkdir", "script", "devnull", "start"}

\* StartTask, as the outcome it computes: the error ("" on success), and
\* what it did before returning.
StartTaskOutcome(taskName, fault) ==
    LET none == [err |-> "", id |-> "", mkdir |-> FALSE, spawned |-> FALSE,
                 registered |-> FALSE]
    IN  IF validateTaskName(taskName) # "ok"
        THEN [none EXCEPT !.err = "invalid task name"]
        ELSE IF taskName \notin DOMAIN ConfigTasks
        THEN [none EXCEPT !.err = "task not found in configuration"]
        ELSE IF fault = "mkdir"
        THEN [none EXCEPT !.err = "failed to create output directory",
                          !.id = NewUUID]
        ELSE IF fault = "script"
        THEN [none EXCEPT !.err = "failed to create wrapper script",
                          !.id = NewUUID, !.mkdir = TRUE]
        ELSE IF fault = "devnull"
        THEN [none EXCEPT !.err = "failed to open /dev/null",
                          !.id = NewUUID, !.mkdir = TRUE]
        ELSE IF fault = "start"
        THEN [none EXCEPT !.err = "failed to start task process",
                          !.id = NewUUID, !.mkdir = TRUE]
        ELSE [err |-> "", id |-> NewUUID, mkdir |-> TRUE, spawned |-> TRUE,
              registered |-> TRUE]

\* A registration that gives a task without max_execution_time a
\* deadline all the same.
NewRunningTaskWithDefaultDeadline(taskName) ==
    [TaskName |-> taskName,
     MaxExecutionTime |-> IF ConfigTasks[taskName] > 0
                          THEN ConfigTasks[taskName] ELSE MaxExec,
     Terminated |-> FALSE, Killed |-> FALSE]

\* The RunningTask that StartTask registers: the deadline is that of the
\* task's definition when it is positive and zero (none) otherwise.
NewRunningTask(taskName) ==
    [TaskName |-> taskName, MaxExecutionTime |-> ConfigTasks[taskName],
     Terminated |-> FALSE, Killed |-> FALSE]

\* f with x mapped to v (x may be new to the domain).
Put(f, x, v) == [y \in DOMAIN f \cup {x} |-> IF y = x THEN v ELSE f[y]]
Drop(f, x) == [y \in DOMAIN f \ {x} |-> f[y]]

\* StartTask, as its effect on the Supervisor, the disk and the processes.
StartTask(taskName, o) ==
    /\ usedIds' = IF o.id = "" THEN usedIds ELSE usedIds \cup {o.id}
    /\ dirs' = IF o.mkdir THEN dirs \cup {o.id} ELSE dirs
    /\ proc' = IF o.spawned THEN Put(proc, o.id, "alive") ELSE proc
    /\ age' = IF o.spawned THEN Put(age, o.id, [run |-> 0, term |-> -1]) ELSE age
    /\ runningTasks' = IF o.registered
                       THEN Put(runningTasks, o.id, NewRunningTask(taskName))
                       ELSE runningTasks

\* validateTaskID: the identifiers of the model are all canonical UUIDs
\* except "junk".
validateTaskID(taskID) == taskID \in TaskIds

\* A lookup that asks the disk for the task's directory, not the map.
GetTaskByDirectory(taskID) ==
    IF ~validateTaskID(taskID) THEN "invalid task ID format"
    ELSE IF taskID \notin dirs THEN "task not found"
    ELSE "ok"

\* GetTask: "ok" or the error.
GetTask(taskID) ==
    IF ~validateTaskID(taskID) THEN "invalid task ID format"
    ELSE IF taskID \notin DOMAIN runningTasks THEN "task not found"
    ELSE "ok"


(***************************************************************************)
(* Sinks                                                                   *)
(***************************************************************************)

NoEngine == [st |-> "none", task |-> "", grace |-> 0, wait |-> 0,
             polled |-> FALSE]

\* handleWebSocket once the connection is upgraded: the sink is created,
\* the connected frame is written, the per-attach loops are started.
AttachSink(c, taskID) ==
    /\ attached' = [attached EXCEPT ![c] = taskID]
    /\ frames' = [frames EXCEPT ![c] = <<"connected">>]
    /\ eng' = [eng EXCEPT ![c] = [st |-> "waitpid", task |-> taskID,
                                  grace |-> 0, wait |-> PidWaitTicks,
                                  polled |-> FALSE]]

FreeConns == {c \in Conns : attached[c] = "" /\ eng[c].st = "none"}
FirstFreeConn == CHOOSE c \in FreeConns : \A d \in FreeConns : c <= d

(***************************************************************************)
(* The HTTP surface                                                        *)
(***************************************************************************)

Origins == {"", "http://a", "http://evil"}
OriginLists == {<<>>, <<"http://a">>}

NoReq == [ep |-> "none", token |-> MissingToken, at |-> 0, method |-> "GET",
          body |-> <<>>, qid |-> "", origin |-> "",
          preTasks |-> {}, preDirs |-> {}, preAttached |-> {}]
NoResp == [status |-> 0, task |-> "", conn |-> 0, read |-> FALSE]

\* The tokens presented to an endpoint.  The start endpoint never reads
\* task_id and the viewer endpoints never read body_sha1: those claims are
\* left out of the tokens sent there.
TokensFor(ep) ==
    {MissingToken} \cup
    {t \in Tokens : IF ep = "start" THEN t.TaskID = ""
                                    ELSE t.BodySHA1 = NoHash}

\* A request reaches one of the three authenticated endpoints.  preTasks,
\* preDirs and preAttached record the state the handler starts from.
Arrive ==
    /\ req.ep = "none"
    /\ \E ep \in {"start", "viewer", "ws"}, at \in {Now} :
      \E t \in TokensFor(ep) :
        /\ ep = "start" => FreshIds # {}
        /\ ep = "ws" => FreeConns # {}
        /\ \E m \in (IF ep = "start" THEN {"POST", "GET"} ELSE {"GET"}),
              b \in (IF ep = "start" THEN Bodies ELSE {<<>>}),
              q \in (IF ep = "start" THEN {""} ELSE {""} \cup IdPool),
              o \in (IF ep = "ws" THEN Origins ELSE {""}) :
            req' = [ep |-> ep, token |-> t, at |-> at, method |-> m,
                    body |-> b, qid |-> q, origin |-> o,
                    preTasks |-> DOMAIN runningTasks, preDirs |-> dirs,
                    preAttached |-> {c \in Conns : attached[c] # ""}]
    /\ resp' = NoResp
    /\ UNCHANGED <<taskVars, sinkVars, sigLog, tailVars, allowedOrigins, up, wr, fn, wsm, rl>>

\* decodeJSONRequest into StartTaskRequest: the task_name of the body.
DecodedTaskName(body) ==
    LET obj == JsonObject(StripWs(body))
    IN  IF "task_name" \in DOMAIN obj THEN obj["task_name"] ELSE ""

\* A variant of the body-hash binding that checks the digest only when the
\* token carries one.
BodyHashOptional(claims, normalizedBody) ==
    claims.BodySHA1 = NoHash \/ claims.BodySHA1 = computeSHA1Hex(normalizedBody)

\* The body-hash binding of handleStartTask.
BodyHashOK(claims, normalizedBody) ==
    ~(claims.BodySHA1 = NoHash \/ claims.BodySHA1 # computeSHA1Hex(normalizedBody))

\* The checks of handleStartTask before it calls StartTask: the status it
\* answers, 0 when every check passes.
\* A handler that reads and parses the body first and looks at the token
\* and the method afterwards.
StartChecksBodyFirst(r) ==
    IF ~normalizeJSON(r.body).ok THEN [status |-> 400, read |-> TRUE]
    ELSE IF validateJWT(r.token, r.at, AudApi) # "ok"
    THEN [status |-> 401, read |-> TRUE]
    ELSE IF r.method # "POST" THEN [status |-> 405, read |-> TRUE]
    ELSE IF ~BodyHashOK(r.token, normalizeJSON(r.body).bytes)
    THEN [status |-> 401, read |-> TRUE]
    ELSE IF DecodedTaskName(r.body) = "" THEN [status |-> 400, read |-> TRUE]
    ELSE [status |-> 0, read |-> TRUE]

\* The checks of handleStartTask before it calls StartTask, in the order
\* of the code: the status it answers (0 when every check passes) and
\* whether io.ReadAll(r.Body) was reached.
StartChecks(r) ==
    IF validateJWT(r.token, r.at, AudApi) # "ok"
    THEN [status |-> 401, read |-> FALSE]
    ELSE IF r.method # "POST" THEN [status |-> 405, read |-> FALSE]
    ELSE IF ~normalizeJSON(r.body).ok THEN [status |-> 400, read |-> TRUE]
    ELSE IF ~BodyHashOK(r.token, normalizeJSON(r.body).bytes)
    THEN [status |-> 401, read |-> TRUE]
    ELSE IF DecodedTaskName(r.body) = "" THEN [status |-> 400, read |-> TRUE]
    ELSE [status |-> 0, read |-> TRUE]

StartGate(r) == StartChecks(r).status

handleStartTask ==
    /\ req.ep = "start"
    /\ resp = NoResp
    /\ IF StartGate(req) # 0
       THEN /\ resp' = [NoResp EXCEPT !.status = StartGate(req),
                                      !.read = StartChecks(req).read]
            /\ UNCHANGED taskVars
       ELSE \E fault \in Faults :
              LET o == StartTaskOutcome(DecodedTaskName(req.body), fault)
              IN  /\ StartTask(DecodedTaskName(req.body), o)
                  /\ resp' = IF o.err = ""
                             THEN [NoResp EXCEPT !.status = 200, !.task = o.id,
                                                 !.read = TRUE]
                             ELSE [NoResp EXCEPT !.status = 500,
                                                 !.read = TRUE]
    /\ UNCHANGED <<req, sinkVars, sigLog, tailVars, allowedOrigins, up, wr, fn, wsm, rl>>

\* The task a viewer request names: the query parameter, else the claim.
RequestedTask(r) == IF r.qid = "" THEN r.token.TaskID ELSE r.qid

handleViewer ==
    /\ req.ep = "viewer"
    /\ resp = NoResp
    /\ resp' = IF validateJWT(req.token, req.at, AudViewer) # "ok"
               THEN [NoResp EXCEPT !.status = 401]
               ELSE IF RequestedTask(req) = ""
               THEN [NoResp EXCEPT !.status = 400]
               ELSE IF GetTask(RequestedTask(req)) # "ok"
               THEN [NoResp EXCEPT !.status = 404]
               ELSE [NoResp EXCEPT !.status = 200, !.task = RequestedTask(req)]
    /\ UNCHANGED <<req, taskVars, sinkVars, sigLog, tailVars, allowedOrigins, up, wr, fn, wsm, rl>>

\* A variant of the origin check that accepts every origin.
CheckOriginAllowAll(allowed, origin) == TRUE

\* createUpgrader(allowedOrigins).CheckOrigin
CheckOrigin(allowed, origin) ==
    IF Len(allowed) = 0 THEN TRUE ELSE origin \in Range(allowed)

\* The token check of the attach endpoint.
WsAuth(r) == validateJWT(r.token, r.at, AudViewer)

handleWebSocket ==
    /\ req.ep = "ws"
    /\ resp = NoResp
    /\ IF WsAuth(req) # "ok"
       THEN resp' = [NoResp EXCEPT !.status = 401] /\ UNCHANGED sinkVars
       ELSE IF RequestedTask(req) = ""
       THEN resp' = [NoResp EXCEPT !.status = 400] /\ UNCHANGED sinkVars
       ELSE IF GetTask(RequestedTask(req)) # "ok"
       THEN resp' = [NoResp EXCEPT !.status = 404] /\ UNCHANGED sinkVars
       ELSE IF ~CheckOrigin(allowedOrigins, req.origin)
       THEN resp' = [NoResp EXCEPT !.status = 403] /\ UNCHANGED sinkVars
       ELSE /\ AttachSink(FirstFreeConn, RequestedTask(req))
            /\ resp' = [status |-> 101, task |-> RequestedTask(req),
                        conn |-> FirstFreeConn]
    /\ UNCHANGED <<req, taskVars, sigLog, tailVars, allowedOrigins, up, wr, fn, wsm, rl>>

\* The response has been delivered; the server is ready for the next
\* request.
Finish ==
    /\ req.ep # "none"
    /\ resp # NoResp
    /\ req' = NoReq
    /\ resp' = NoResp
    /\ UNCHANGED <<taskVars, sinkVars, sigLog, tailVars, allowedOrigins, up, wr, fn, wsm, rl>>

\* The client of an attached connection goes away.
CancelScope(c) ==
    tail' = IF tail.conn = c /\ tail.pc \notin {"off", "returned"}
            THEN [tail EXCEPT !.cancelled = TRUE]
            ELSE tail

Disconnect(c) ==
    /\ up
    /\ attached[c] # ""
    /\ attached' = [attached EXCEPT ![c] = ""]
    /\ eng' = IF eng[c].st \in {"waitpid", "running", "terminated", "killed"}
              THEN [eng EXCEPT ![c] = NoEngine]
              ELSE eng
    /\ frames' = [frames EXCEPT ![c] = <<>>]
    /\ CancelScope(c)
    /\ UNCHANGED <<req, resp, taskVars, sigLog, file, emitted,
                   allowedOrigins, up, wr, fn, wsm, rl>>

NoFile == [exists |-> FALSE, data |-> <<>>]
NoTail == [pc |-> "off", tries |-> 0, pos |-> 0, buf |-> <<>>, lastPos |-> 0,
           cancelled |-> FALSE, partial |-> FALSE, conn |-> 0, task |-> ""]

\* The goroutines that write to one connection: the two tailers, the
\* sender of system messages, the ping ticker and the shutdown broadcast.
Producers == {"stdout", "stderr", "system", "ping", "shutdown"}

\* safeConn{conn, mu}: the mutex free, nobody writing.
\* gone: the peer has gone away, so that writes fail; failed: the producers
\* whose write returned an error; ctx: the request's context is cancelled.
NoWriter == [mu |-> "", pc |-> [p \in Producers |-> "idle"],
             gone |-> FALSE, failed |-> {}, ctx |-> FALSE]

\* No function is under evaluation.
NoFn == [op |-> "none"]

\* NewWebSocketManager: no connection, no broadcast under way.  todo and
\* failed are the loop of BroadcastShutdown: the connections it has still
\* to visit and those whose write returned an error.
NoWsm == [connections |-> {}, pc |-> "idle", todo |-> {}, failed |-> {}]

\* NewRateLimiter(0): rate limiting disabled, no bucket.
NoRl == [requestsPerMinute |-> 0, buckets |-> <<>>]

InitCommon ==
    /\ runningTasks = <<>>
    /\ dirs = {}
    /\ usedIds = {}
    /\ attached = [c \in Conns |-> ""]
    /\ req = NoReq
    /\ resp = NoResp
    /\ proc = <<>>
    /\ age = <<>>
    /\ sigLog = [t \in IdPool |-> <<>>]
    /\ eng = [c \in Conns |-> NoEngine]
    /\ frames = [c \in Conns |-> <<>>]
    /\ file = NoFile
    /\ tail = NoTail
    /\ emitted = <<>>
    /\ up = TRUE
    /\ wr = [c \in Conns |-> NoWriter]
    /\ wsm = NoWsm
    /\ rl = NoRl

Init ==
    /\ InitCommon
    /\ allowedOrigins \in OriginLists
    /\ fn = NoFn

Next ==
    \/ Arrive
    \/ handleStartTask
    \/ handleViewer
    \/ handleWebSocket
    \/ Finish
    \/ \E c \in Conns : Disconnect(c)

Spec == Init /\ [][Next]_vars


(***************************************************************************)
(* The task lifecycle: processes, the clock and the Timeout Engine         *)
(***************************************************************************)

Min(a, b) == IF a < b THEN a ELSE b

LoopStates == {"waitpid", "running", "terminated", "killed"}

\* isProcessRunning: the signal 0 probe.  A process that was sent KILL and
\* is not yet reaped still answers the probe.
isProcessRunning(t) == t \in DOMAIN proc /\ proc[t] \in {"alive", "dying"}

\* The PID file of a task is in its output directory.
readPID(t) == t \in dirs

\* The task has a deadline.
TimerSet(t) ==
    /\ t \in DOMAIN runningTasks
    /\ runningTasks[t].MaxExecutionTime > 0

\* The per-task timer: max_execution_time has elapsed since the start.
TimerFired(t) ==
    /\ TimerSet(t)
    /\ age[t].run >= runningTasks[t].MaxExecutionTime

\* The engine of connection c moves to state st; grace is the time left of
\* the grace window it schedules, polled whether its check for the current
\* period is done.
EngTo(c, st, grace, polled) ==
    [eng EXCEPT ![c] = [st |-> st, task |-> eng[c].task, grace |-> grace,
                        wait |-> 0, polled |-> polled]]

SetEng(c, st) == EngTo(c, st, 0, FALSE)
Polled(c) == [eng EXCEPT ![c].polled = TRUE]

\* Delivery of a signal to the process of task t.  since is the time since
\* TERM was delivered (-1: never).
Signal(t, sig) ==
    /\ sigLog' = [sigLog EXCEPT ![t] = Append(@, [sig |-> sig, since |-> age[t].term])]
    /\ proc' = IF sig = "KILL" THEN [proc EXCEPT ![t] = "dying"] ELSE proc
    /\ age' = IF sig = "TERM" THEN [age EXCEPT ![t].term = 0] ELSE age

\* The timers of a process that is not running: they have stopped.
NoTimers == [run |-> 0, term |-> -1]

\* The process of a task ends on its own.
ProcExit(t) ==
    /\ t \in DOMAIN proc
    /\ proc[t] = "alive"
    /\ proc' = [proc EXCEPT ![t] = "exited"]
    /\ age' = [age EXCEPT ![t] = NoTimers]
    /\ UNCHANGED <<runningTasks, dirs, usedIds, sinkVars, sigLog, req,
                   resp, tailVars, allowedOrigins, up, wr, fn, wsm, rl>>

\* A process that was sent KILL is gone.
Reap(t) ==
    /\ t \in DOMAIN proc
    /\ proc[t] = "dying"
    /\ proc' = [proc EXCEPT ![t] = "exited"]
    /\ age' = [age EXCEPT ![t] = NoTimers]
    /\ UNCHANGED <<runningTasks, dirs, usedIds, sinkVars, sigLog, req,
                   resp, tailVars, allowedOrigins, up, wr, fn, wsm, rl>>

\* One period of the liveness poll passes.  Every engine loop has run its
\* check for the period; the timers of living processes advance.
Tick ==
    /\ \A c \in DOMAIN eng : eng[c].st \in LoopStates => eng[c].polled
    /\ age' = [t \in DOMAIN age |->
                 IF proc[t] = "alive"
                 THEN [run  |-> IF TimerSet(t)
                                THEN Min(age[t].run + 1,
                                         runningTasks[t].MaxExecutionTime)
                                ELSE age[t].run,
                       term |-> IF age[t].term = -1 THEN -1
                                ELSE Min(age[t].term + 1, GraceTicks)]
                 ELSE age[t]]
    /\ eng' = [c \in DOMAIN eng |->
                 IF eng[c].st \in LoopStates
                 THEN [eng[c] EXCEPT !.polled = FALSE,
                                     !.grace = IF @ > 0 THEN @ - 1 ELSE 0,
                                     !.wait = IF @ > 0 THEN @ - 1 ELSE 0]
                 ELSE eng[c]]
    /\ UNCHANGED <<runningTasks, dirs, usedIds, proc, attached, frames,
                   sigLog, req, resp, tailVars, allowedOrigins, up, wr, fn, wsm, rl>>

\* Entry of the engine: wait for the PID file.
EngWaitPid(c) ==
    /\ eng[c].st = "waitpid"
    /\ ~eng[c].polled
    /\ eng' = IF readPID(eng[c].task) THEN SetEng(c, "running")
              ELSE IF eng[c].wait = 0 THEN [eng EXCEPT ![c] = NoEngine]
              ELSE Polled(c)
    /\ UNCHANGED <<taskVars, attached, frames, sigLog, req, resp, tailVars,
                   allowedOrigins, up, wr, fn, wsm, rl>>

\* A handler that sends TERM without looking at the terminated flag.
handleTimeoutWithoutFlagTest(c) ==
    LET t == eng[c].task
    IN  /\ runningTasks' = [runningTasks EXCEPT ![t].Terminated = TRUE]
        /\ frames' = [frames EXCEPT ![c] = Append(@, "timeout")]
        /\ Signal(t, "TERM")
        /\ eng' = EngTo(c, "terminated", GraceTicks, TRUE)

\* A handler that goes straight to the hard signal and sets only killed.
handleTimeoutKillFirst(c) ==
    LET t == eng[c].task
    IN  /\ runningTasks' = [runningTasks EXCEPT ![t].Killed = TRUE]
        /\ frames' = [frames EXCEPT ![c] = Append(@, "timeout")]
        /\ Signal(t, "KILL")
        /\ eng' = EngTo(c, "killed", 0, TRUE)

\* handleTimeout: the per-task timer fired while the process is alive.
handleTimeout(c) ==
    LET t == eng[c].task
    IN  IF ~runningTasks[t].Terminated
        THEN /\ runningTasks' = [runningTasks EXCEPT ![t].Terminated = TRUE]
             /\ frames' = [frames EXCEPT ![c] = Append(@, "timeout")]
             /\ Signal(t, "TERM")
             /\ eng' = EngTo(c, "terminated", GraceTicks, TRUE)
        ELSE \/ /\ ~runningTasks[t].Killed
                /\ runningTasks' = [runningTasks EXCEPT ![t].Killed = TRUE]
                /\ frames' = [frames EXCEPT ![c] = Append(@, "timeout")]
                /\ Signal(t, "KILL")
                /\ eng' = EngTo(c, "killed", 0, TRUE)
             \/ /\ eng' = IF runningTasks[t].Killed
                          THEN EngTo(c, "killed", 0, TRUE)
                          ELSE EngTo(c, "terminated", GraceTicks, TRUE)
                /\ UNCHANGED <<runningTasks, frames, sigLog, proc, age>>

\* Running: the liveness poll and the per-task timer.
EngRunning(c) ==
    /\ eng[c].st = "running"
    /\ ~eng[c].polled
    /\ IF ~isProcessRunning(eng[c].task)
       THEN /\ eng' = SetEng(c, "done")
            /\ UNCHANGED <<runningTasks, frames, sigLog, proc, age>>
       ELSE IF TimerFired(eng[c].task)
       THEN handleTimeout(c)
       ELSE /\ eng' = Polled(c)
            /\ UNCHANGED <<runningTasks, frames, sigLog, proc, age>>
    /\ UNCHANGED <<dirs, usedIds, attached, req, resp, tailVars, allowedOrigins, up, wr, fn, wsm, rl>>

\* Terminated: the grace window.
EngTerminated(c) ==
    LET t == eng[c].task
    IN  /\ eng[c].st = "terminated"
        /\ ~eng[c].polled
        /\ IF ~isProcessRunning(t)
           THEN /\ eng' = SetEng(c, "done")
                /\ UNCHANGED <<runningTasks, frames, sigLog, proc, age>>
           ELSE IF eng[c].grace = 0 /\ ~runningTasks[t].Killed
           THEN /\ runningTasks' = [runningTasks EXCEPT ![t].Killed = TRUE]
                /\ frames' = [frames EXCEPT ![c] = Append(@, "timeout")]
                /\ Signal(t, "KILL")
                /\ eng' = EngTo(c, "killed", 0, TRUE)
           ELSE /\ eng' = IF eng[c].grace = 0
                          THEN EngTo(c, "killed", 0, TRUE)
                          ELSE Polled(c)
                /\ UNCHANGED <<runningTasks, frames, sigLog, proc, age>>
        /\ UNCHANGED <<dirs, usedIds, attached, req, resp, tailVars,
                       allowedOrigins, up, wr, fn, wsm, rl>>

\* Killed: keep polling for the exit.
EngKilled(c) ==
    /\ eng[c].st = "killed"
    /\ ~eng[c].polled
    /\ eng' = IF ~isProcessRunning(eng[c].task) THEN SetEng(c, "done")
              ELSE Polled(c)
    /\ UNCHANGED <<taskVars, attached, frames, sigLog, req, resp, tailVars,
                   allowedOrigins, up, wr, fn, wsm, rl>>

\* Done, first step: the completed frame.
EngDone(c) ==
    /\ eng[c].st = "done"
    /\ frames' = IF attached[c] # ""
                 THEN [frames EXCEPT ![c] = Append(@, "completed")]
                 ELSE frames
    /\ eng' = SetEng(c, "flushed")
    /\ UNCHANGED <<taskVars, attached, sigLog, req, resp, tailVars,
                   allowedOrigins, up, wr, fn, wsm, rl>>

\* RemoveTask
RemoveTask(t) ==
    runningTasks' = IF t \in DOMAIN runningTasks THEN Drop(runningTasks, t)
                    ELSE runningTasks

\* Done, second step: Supervisor removal.
EngRemove(c) ==
    /\ eng[c].st = "flushed"
    /\ RemoveTask(eng[c].task)
    /\ eng' = SetEng(c, "removed")
    /\ UNCHANGED <<dirs, usedIds, proc, age, attached, frames, sigLog, req,
                   resp, tailVars, allowedOrigins, up, wr, fn, wsm, rl>>

\* Done, third step: the sink is closed.
EngClose(c) ==
    /\ eng[c].st = "removed"
    /\ attached' = [attached EXCEPT ![c] = ""]
    /\ eng' = SetEng(c, "closed")
    /\ CancelScope(c)
    /\ UNCHANGED <<taskVars, frames, sigLog, req, resp, file, emitted,
                   allowedOrigins, up, wr, fn, wsm, rl>>

\* Done, last step: the output directory is deleted; the connection is
\* over and its frames are history.
EngRmDir(c) ==
    /\ eng[c].st = "closed"
    /\ dirs' = dirs \ {eng[c].task}
    /\ eng' = [eng EXCEPT ![c] = NoEngine]
    /\ frames' = [frames EXCEPT ![c] = <<>>]
    /\ UNCHANGED <<runningTasks, usedIds, proc, age, attached, sigLog,
                   req, resp, tailVars, allowedOrigins, up, wr, fn, wsm, rl>>

EngineStep(c) ==
    \/ up /\ EngWaitPid(c)
    \/ up /\ EngRunning(c)
    \/ up /\ EngTerminated(c)
    \/ up /\ EngKilled(c)
    \/ up /\ EngDone(c)
    \/ up /\ EngRemove(c)
    \/ up /\ EngClose(c)
    \/ up /\ EngRmDir(c)

\* A start request that passed the checks of handleStartTask and whose
\* StartTask met no fault of the environment.
Launch(taskName) ==
    /\ up
    /\ Cardinality(usedIds) < MaxLifeTasks
    /\ StartTask(taskName, StartTaskOutcome(taskName, "none"))
    /\ UNCHANGED <<sinkVars, sigLog, req, resp, tailVars, allowedOrigins, up, wr, fn, wsm, rl>>

\* An attach request that passed the checks of handleWebSocket.
Attach(t) ==
    /\ up
    /\ FreeConns # {}
    /\ GetTask(t) = "ok"
    /\ AttachSink(FirstFreeConn, t)
    /\ UNCHANGED <<taskVars, sigLog, req, resp, tailVars, allowedOrigins, up, wr, fn, wsm, rl>>

\* BroadcastShutdown: every attached sink is sent the shutdown notice and
\* closed.
BroadcastShutdown ==
    /\ frames' = [c \in Conns |-> IF attached[c] # ""
                                  THEN Append(frames[c], "shutdown")
                                  ELSE frames[c]]
    /\ attached' = [c \in Conns |-> ""]

\* CleanupAllTasks: the output directory of every tracked task is deleted.
CleanupAllTasks == dirs' = dirs \ DOMAIN runningTasks

\* The server is told to stop: the sinks are notified and closed, the
\* output directories purged, and the server process ends with its loops.
Shutdown ==
    /\ up
    /\ up' = FALSE
    /\ BroadcastShutdown
    /\ CleanupAllTasks
    /\ eng' = [c \in Conns |-> NoEngine]
    /\ UNCHANGED <<runningTasks, usedIds, proc, age, sigLog, req, resp,
                   tailVars, allowedOrigins, wr, fn, wsm, rl>>

LifeInit ==
    /\ InitCommon
    /\ allowedOrigins = <<>>
    /\ fn = NoFn

LifeNext ==
    \/ \E n \in DOMAIN ConfigTasks : Launch(n)
    \/ \E t \in IdPool : Attach(t)
    \/ \E c \in Conns : Disconnect(c)
    \/ \E t \in IdPool : ProcExit(t)
    \/ \E t \in IdPool : Reap(t)
    \/ Tick
    \/ \E c \in Conns : EngineStep(c)
    \/ Shutdown

LifeSpec == LifeInit /\ [][LifeNext]_vars

\* The clock advances, every engine loop gets its turn, and a process that
\* was sent KILL goes away.  Nothing obliges a client to attach, a process
\* to end on its own, or the server to be shut down.
LifeFair ==
    /\ LifeSpec
    /\ WF_vars(Tick)
    /\ \A c \in Conns : WF_vars(EngineStep(c))
    /\ \A t \in IdPool : WF_vars(Reap(t))


(***************************************************************************)
(* Properties of the HTTP surface                                          *)
(***************************************************************************)

\* A handler has answered the pending request.
Handled(ep) == req.ep = ep /\ resp # NoResp

\* The handler left the Supervisor map and the task root as it found them.
NothingLaunched == DOMAIN runningTasks = req.preTasks /\ dirs = req.preDirs

\* The handler opened no sink.
NoSinkOpened ==
    /\ resp.conn = 0
    /\ {c \in Conns : attached[c] # ""} \subseteq req.preAttached

\* body_sha1 is present and is the digest of the canonical form of the body.
HashMatches(r) ==
    /\ r.token.BodySHA1 # NoHash
    /\ normalizeJSON(r.body).ok
    /\ r.token.BodySHA1 = computeSHA1Hex(normalizeJSON(r.body).bytes)

\* The token is validly signed and carries an exp in the future.
SignedUnexpired(t, now) ==
    /\ t.present /\ t.alg = "HS256" /\ t.sigOK
    /\ t.ExpiresAt # <<>> /\ now < t.ExpiresAt[1]

C5_ApiRejectsViewerAudience ==
    (Handled("start") /\ "viewer" \in Range(req.token.Audience)) =>
        /\ validateJWT(req.token, req.at, AudApi) # "ok"
        /\ resp.status = 401
        /\ NothingLaunched

\* C6: with expected audience viewer, a validly signed unexpired token is
\* accepted exactly when its aud list contains "viewer"; the viewer page and
\* the attach endpoint answer 401 to a token with no or an empty aud and
\* open no sink for it.
C6_ViewerIffListsViewer ==
    ((Handled("viewer") \/ Handled("ws")) /\ SignedUnexpired(req.token, req.at)) =>
        /\ (resp.status # 401) <=> ("viewer" \in Range(req.token.Audience))
        /\ req.token.Audience \in {<<>>, <<"">>} => resp.status = 401 /\ NoSinkOpened

\* C7: a token whose exp is absent or in the past is rejected, whatever the
\* expected audience; each endpoint answers 401 to it.
C7_ExpAbsentOrPastRejected ==
    (req.ep # "none" /\ resp # NoResp /\ req.token.present
       /\ (req.token.ExpiresAt = <<>> \/ req.token.ExpiresAt[1] < req.at)) =>
        /\ \A expected \in {AudNil, AudApi, AudViewer} :
              validateJWT(req.token, req.at, expected) # "ok"
        /\ resp.status = 401

\* C8: a token whose task_id claim names task A is never served the viewer
\* page of, nor attached to, a different task B.
C8_TokenBoundToTask ==
    ((Handled("viewer") \/ Handled("ws"))
       /\ req.token.TaskID # "" /\ resp.status \in {200, 101}) =>
        resp.task = req.token.TaskID

Delivered(t, sig) ==
    \E i \in 1..Len(sigLog[t]) : sigLog[t][i].sig = sig

\* The deadline of tracked task t has passed and its process is alive.
Overdue(t) ==
    /\ t \in DOMAIN proc
    /\ proc[t] = "alive"
    /\ TimerFired(t)

\* C1: whenever the process of a tracked task with max_execution_time > 0
\* is alive after max_execution_time has elapsed, TERM is eventually
\* delivered to it (unless it ends by itself first, or the server is shut
\* down), whether or not a viewer attaches.
C1_OverdueGetsTerm ==
    \A t \in IdPool :
        Overdue(t) ~> \/ Delivered(t, "TERM")
                      \/ (t \in DOMAIN proc /\ proc[t] # "alive")
                      \/ ~up

\* C2: every KILL is delivered to a task to which TERM was delivered a full
\* grace window earlier.
C2_KillOnlyAfterGrace ==
    \A t \in IdPool : \A i \in 1..Len(sigLog[t]) :
        sigLog[t][i].sig = "KILL" => sigLog[t][i].since >= GraceTicks

\* C3: once the process of a launched task has ended, the task is
\* eventually out of the Supervisor map and its output directory is
\* eventually deleted (unless the server is shut down first), whether or not
\* a viewer is attached.
C3_EndedTaskReclaimed ==
    \A t \in IdPool :
        (t \in DOMAIN proc /\ proc[t] = "exited")
            ~> ((t \notin DOMAIN runningTasks /\ t \notin dirs) \/ ~up)


(***************************************************************************)
(* The tailer of one output file and the writer of that file               *)
(***************************************************************************)

FileChars == {"a", "b", "\n"}

HasNewline(b) == \E i \in 1..Len(b) : b[i] = "\n"
FirstNewline(b) == CHOOSE i \in 1..Len(b) : b[i] = "\n" /\ \A j \in 1..(i - 1) : b[j] # "\n"

\* The wrapper's redirection creates the file.
Create ==
    /\ ~file.exists
    /\ file' = [exists |-> TRUE, data |-> <<>>]
    /\ UNCHANGED <<taskVars, sinkVars, sigLog, req, resp, tail, emitted,
                   allowedOrigins, up, wr, fn, wsm, rl>>

\* The task's process appends to the file.
AppendByte(ch) ==
    /\ file.exists
    /\ Len(file.data) < MaxFileLen
    /\ file' = [file EXCEPT !.data = Append(@, ch)]
    /\ UNCHANGED <<taskVars, sinkVars, sigLog, req, resp, tail, emitted,
                   allowedOrigins, up, wr, fn, wsm, rl>>

\* The connection's context is cancelled.
Cancel ==
    /\ tail.pc \notin {"off", "returned"}
    /\ ~tail.cancelled
    /\ tail' = [tail EXCEPT !.cancelled = TRUE]
    /\ UNCHANGED <<taskVars, sinkVars, sigLog, req, resp, file, emitted,
                   allowedOrigins, up, wr, fn, wsm, rl>>

\* safeConn.WriteMessage of one record of the tailer's stream: with no
\* connection in the picture (conn = 0) the sink is the tailer's own.
SinkOpen == IF tail.conn = 0 THEN TRUE ELSE attached[tail.conn] # ""

Deliver(kind) ==
    IF tail.conn = 0 THEN frames
    ELSE [frames EXCEPT ![tail.conn] = Append(@, kind)]

\* go tailFile(...)
TailStart ==
    /\ tail.pc = "off"
    /\ tail' = [tail EXCEPT !.pc = "wait"]
    /\ UNCHANGED <<taskVars, sinkVars, sigLog, req, resp, file, emitted,
                   allowedOrigins, up, wr, fn, wsm, rl>>

\* One round of the wait for the file to be created.
TailWait ==
    /\ tail.pc = "wait"
    /\ tail' = IF tail.cancelled THEN [tail EXCEPT !.pc = "returned"]
               ELSE IF file.exists THEN [tail EXCEPT !.pc = "open"]
               ELSE [tail EXCEPT !.tries = @ + 1,
                                 !.pc = IF tail.tries + 1 = WaitTries
                                        THEN "nofile" ELSE "wait"]
    /\ UNCHANGED <<taskVars, sinkVars, sigLog, req, resp, file, emitted,
                   allowedOrigins, up, wr, fn, wsm, rl>>

\* The file did not appear: the waiting notice, and the tailer returns.
TailNoFile ==
    /\ tail.pc = "nofile"
    /\ IF SinkOpen
       THEN /\ emitted' = Append(emitted, <<"Waiting for output file...", "\n">>)
            /\ frames' = Deliver("stdout")
       ELSE UNCHANGED <<emitted, frames>>
    /\ tail' = [tail EXCEPT !.pc = "returned"]
    /\ UNCHANGED <<taskVars, attached, eng, sigLog, req, resp, file,
                   allowedOrigins, up, wr, fn, wsm, rl>>

\* os.Open: a descriptor at offset zero.
TailOpen ==
    /\ tail.pc = "open"
    /\ tail' = [tail EXCEPT !.pc = "scan", !.pos = 0, !.buf = <<>>]
    /\ UNCHANGED <<taskVars, sinkVars, sigLog, req, resp, file, emitted,
                   allowedOrigins, up, wr, fn, wsm, rl>>

\* The body of the scan loop for one token: the context check, then the
\* record with the newline put back; a failed write ends the tailer.
EmitToken(token, next) ==
    IF tail.cancelled
    THEN /\ tail' = [next EXCEPT !.pc = "returned"]
         /\ UNCHANGED <<emitted, frames>>
    ELSE \/ /\ SinkOpen
            /\ emitted' = Append(emitted, token \o <<"\n">>)
            /\ frames' = Deliver("stdout")
            /\ tail' = next
         \/ /\ tail' = [next EXCEPT !.pc = "returned"]
            /\ UNCHANGED <<emitted, frames>>

\* One step of scanner.Scan(): a buffered line is returned; else the file
\* is read from the descriptor's offset; at end of file the rest of the
\* buffer is the last token and the loop ends.
TailScan ==
    /\ tail.pc = "scan"
    /\ IF HasNewline(tail.buf)
       THEN LET i == FirstNewline(tail.buf)
            IN  EmitToken(SubSeq(tail.buf, 1, i - 1),
                          [tail EXCEPT !.buf = SubSeq(@, i + 1, Len(@))])
       ELSE IF tail.pos < Len(file.data)
       THEN /\ tail' = [tail EXCEPT
                          !.buf = @ \o SubSeq(file.data, tail.pos + 1, Len(file.data)),
                          !.pos = Len(file.data)]
            /\ UNCHANGED <<emitted, frames>>
       ELSE IF tail.buf # <<>>
       THEN EmitToken(tail.buf, [tail EXCEPT !.buf = <<>>, !.pc = "seek",
                                             !.partial = TRUE])
       ELSE /\ tail' = [tail EXCEPT !.pc = "seek"]
            /\ UNCHANGED <<emitted, frames>>
    /\ UNCHANGED <<taskVars, attached, eng, sigLog, req, resp, file,
                   allowedOrigins, up, wr, fn, wsm, rl>>

\* lastPos = file.Seek(0, io.SeekEnd)
TailSeek ==
    /\ tail.pc = "seek"
    /\ tail' = [tail EXCEPT !.lastPos = Len(file.data), !.pc = "follow"]
    /\ UNCHANGED <<taskVars, sinkVars, sigLog, req, resp, file, emitted,
                   allowedOrigins, up, wr, fn, wsm, rl>>

\* One 200 ms poll of the follow loop: when the file has grown it is
\* re-opened and the descriptor moved to lastPos.
TailPoll ==
    /\ tail.pc = "follow"
    /\ tail' = IF tail.cancelled THEN [tail EXCEPT !.pc = "returned"]
               ELSE IF Len(file.data) > tail.lastPos
               THEN [tail EXCEPT !.pc = "scan", !.pos = tail.lastPos,
                                 !.buf = <<>>]
               ELSE tail
    /\ UNCHANGED <<taskVars, sinkVars, sigLog, req, resp, file, emitted,
                   allowedOrigins, up, wr, fn, wsm, rl>>

tailFile ==
    \/ TailWait
    \/ TailNoFile
    \/ TailOpen
    \/ TailScan
    \/ TailSeek
    \/ TailPoll

TailInit ==
    /\ InitCommon
    /\ allowedOrigins = <<>>
    /\ fn = NoFn

TailNext ==
    \/ Create
    \/ \E ch \in FileChars : AppendByte(ch)
    \/ TailStart
    \/ tailFile
    \/ Cancel

TailSpec == TailInit /\ [][TailNext]_vars

(***************************************************************************)
(* Properties of the tailer                                                *)
(***************************************************************************)

\* The complete lines of a text, each with its newline, in order.
RECURSIVE CompleteLines(_)
CompleteLines(b) ==
    IF ~HasNewline(b) THEN <<>>
    ELSE <<SubSeq(b, 1, FirstNewline(b))>>
         \o CompleteLines(SubSeq(b, FirstNewline(b) + 1, Len(b)))

\* The tailer is idle in the follow loop and has nothing left to read.
CaughtUp ==
    /\ tail.pc = "follow"
    /\ ~tail.cancelled
    /\ tail.lastPos = Len(file.data)

\* C10: a tailer that was not cancelled, whose writes succeeded and that has
\* caught up with the file has emitted every complete line of the file
\* exactly once and in file order.  (Runs in which the tailer cut a line at
\* the end of the file are left aside.)
C10_EveryLineOnceInOrder ==
    (CaughtUp /\ ~tail.partial) => emitted = CompleteLines(file.data)



\* ---------------------------------------------------------------------
\* One viewer's sink: the tailer and the Timeout Engine write to the same
\* connection.
\* ---------------------------------------------------------------------

\* The task whose stdout file is the one followed here.
SinkTask == IdOrder[1]

\* handleWebSocket past its checks: the connected notice, then
\* go tailFile(ctx, safeConn, stdoutPath, "stdout", taskID).
SinkAttach(t) ==
    /\ up
    /\ t = SinkTask
    /\ FreeConns # {}
    /\ GetTask(t) = "ok"
    /\ tail.pc = "off"
    /\ AttachSink(FirstFreeConn, t)
    /\ tail' = [NoTail EXCEPT !.pc = "wait", !.conn = FirstFreeConn,
                              !.task = t]
    /\ UNCHANGED <<taskVars, sigLog, req, resp, file, emitted,
                   allowedOrigins, up, wr, fn, wsm, rl>>

\* The wrapper script: "exec > stdout" creates the file, and what the
\* command prints afterwards is appended to it.
SinkOutput(ch) ==
    /\ SinkTask \in DOMAIN proc
    /\ proc[SinkTask] = "alive"
    /\ IF file.exists THEN AppendByte(ch) ELSE Create

\* The wrapper script runs to its end: the redirection came first.
SinkExit(t) ==
    /\ t = SinkTask => file.exists
    /\ ProcExit(t)

SinkNext ==
    \/ \E n \in DOMAIN ConfigTasks : Launch(n)
    \/ \E t \in IdPool : SinkAttach(t)
    \/ \E ch \in FileChars : SinkOutput(ch)
    \/ \E t \in IdPool : SinkExit(t)
    \/ \E t \in IdPool : Reap(t)
    \/ Tick
    \/ \E c \in Conns : EngineStep(c)
    \/ tailFile
    \/ \E c \in Conns : Disconnect(c)

SinkSpec == LifeInit /\ [][SinkNext]_vars

\* ---------------------------------------------------------------------
\* Properties of the frames on one sink
\* ---------------------------------------------------------------------

OutputFrames == {"stdout", "stderr"}

\* C11: on every sink the connected notice is the first frame, a timeout
\* notice comes after it and before the completed notice, and once the
\* completed notice was delivered no stdout, stderr or timeout frame
\* follows on that sink.
C11_FrameOrder ==
    \A c \in Conns :
        LET f == frames[c]
        IN  /\ f # <<>> => f[1] = "connected"
            /\ \A i \in 2..Len(f) : f[i] # "connected"
            /\ \A i, j \in 1..Len(f) :
                   (i < j /\ f[i] = "completed")
                       => f[j] \notin OutputFrames \cup {"timeout"}


\* ---------------------------------------------------------------------
\* The writers of one connection and its mutex
\* ---------------------------------------------------------------------

\* A producer (a tailer with a record, sendSystemMessage, the ping ticker
\* of handleWebSocket, BroadcastShutdown in its loop) has a message for
\* the connection and reaches the Lock call.
Call(c, p) ==
    /\ wr[c].pc[p] = "idle"
    /\ wr' = [wr EXCEPT ![c].pc[p] = "want"]
    /\ UNCHANGED <<taskVars, sinkVars, sigLog, req, resp, tailVars,
                   allowedOrigins, up, fn, wsm, rl>>

\* sync.Mutex.Lock without the exclusion: it returns whoever holds it.
MuLockNoExclusion(c, p) ==
    /\ wr[c].pc[p] = "want"
    /\ wr' = [wr EXCEPT ![c].mu = p, ![c].pc[p] = "held"]
    /\ UNCHANGED <<taskVars, sinkVars, sigLog, req, resp, tailVars,
                   allowedOrigins, up, fn, wsm, rl>>

\* sc.mu.Lock(): returns only when nobody holds the mutex.
MuLock(c, p) ==
    /\ wr[c].pc[p] = "want"
    /\ wr[c].mu = ""
    /\ wr' = [wr EXCEPT ![c].mu = p, ![c].pc[p] = "held"]
    /\ UNCHANGED <<taskVars, sinkVars, sigLog, req, resp, tailVars,
                   allowedOrigins, up, fn, wsm, rl>>

\* conn.WriteMessage is entered.
ConnWrite(c, p) ==
    /\ wr[c].pc[p] = "held"
    /\ wr' = [wr EXCEPT ![c].pc[p] = "writing"]
    /\ UNCHANGED <<taskVars, sinkVars, sigLog, req, resp, tailVars,
                   allowedOrigins, up, fn, wsm, rl>>

\* A writer that asks the manager for its Count, under wsm.mu, before it
\* lets go of the connection's mutex.
ConnWriteReturnThenCount(c, p) ==
    /\ wr[c].pc[p] = "writing"
    /\ wsm.pc # "loop"
    /\ wr' = [wr EXCEPT ![c].pc[p] = "written"]
    /\ UNCHANGED <<taskVars, sinkVars, sigLog, req, resp, tailVars,
                   allowedOrigins, up, fn, wsm, rl>>

\* conn.WriteMessage returns (the broadcast also closes the connection
\* before it lets go of the mutex).
ConnWriteReturn(c, p) ==
    /\ wr[c].pc[p] = "writing"
    /\ wr' = [wr EXCEPT ![c].pc[p] = "written"]
    /\ UNCHANGED <<taskVars, sinkVars, sigLog, req, resp, tailVars,
                   allowedOrigins, up, fn, wsm, rl>>

\* sc.mu.Unlock()
MuUnlock(c, p) ==
    /\ wr[c].pc[p] = "written"
    /\ wr' = [wr EXCEPT ![c].mu = "", ![c].pc[p] = "idle"]
    /\ UNCHANGED <<taskVars, sinkVars, sigLog, req, resp, tailVars,
                   allowedOrigins, up, fn, wsm, rl>>

WriteNext ==
    \/ \E c \in Conns, p \in Producers : Call(c, p)
    \/ \E c \in Conns, p \in Producers : MuLock(c, p)
    \/ \E c \in Conns, p \in Producers : ConnWrite(c, p)
    \/ \E c \in Conns, p \in Producers : ConnWriteReturn(c, p)
    \/ \E c \in Conns, p \in Producers : MuUnlock(c, p)

WriteSpec == LifeInit /\ [][WriteNext]_vars

InWrite(c) == {p \in Producers : wr[c].pc[p] = "writing"}

\* C12: on every sink at most one producer is inside the connection's
\* write at any time, whichever of the two tailers, the system messages,
\* the ping ticker and the shutdown broadcast are writing.
C12_OneWriterAtATime == \A c \in Conns : Cardinality(InWrite(c)) <= 1

\* Every other producer is waiting for the mutex while one is inside the
\* write.
C12_Witness ==
    \E c \in Conns : \E p \in Producers :
        /\ wr[c].pc[p] = "writing"
        /\ \A q \in Producers \ {p} : wr[c].pc[q] = "want"


\* ---------------------------------------------------------------------
\* Properties of the Supervisor's map and the task root
\* ---------------------------------------------------------------------

\* C13: every RunningTask recorded in the map has an existing output
\* directory, after any sequence of launches, removals and
\* CleanupAllTasks.
C13_TrackedTaskHasDirectory == \A t \in DOMAIN runningTasks : t \in dirs

\* C14: when a launch fails (also after the output directory was created:
\* script write, /dev/null open, spawn), the directory is gone before the
\* launch returns and no RunningTask was registered.
C14_FailedLaunchLeavesNothing ==
    (Handled("start") /\ resp.status = 500) => NothingLaunched

\* The engine of connection c performs its removal step for task t.
Removes(c, t) == eng[c].st = "flushed" /\ eng[c].task = t

RefusedByValidation(r) ==
    /\ StartGate(r) = 0
    /\ validateTaskName(DecodedTaskName(r.body)) # "ok"

\* C16: a launch that fails for input validation (here: an invalid task
\* name) is answered 400; 500 is for a failed process start only.
C16_ValidationFailureIs400 ==
    (Handled("start") /\ RefusedByValidation(req)) => resp.status = 400

\* The token check of the start handler lets the request's token through.
TokenAccepted(r) == validateJWT(r.token, r.at, AudApi) = "ok"

MaxCmdLen == 3

RECURSIVE StringsUpTo(_, _)
StringsUpTo(chars, n) ==
    IF n = 0 THEN {<<>>}
    ELSE LET shorter == StringsUpTo(chars, n - 1)
         IN  shorter \cup {Append(w, ch) : w \in shorter, ch \in chars}

\* The commands considered: up to MaxCmdLen characters out of a letter,
\* the single quote, the backslash, the blank, a control operator and the
\* dollar sign.
CmdStrings == StringsUpTo({"a", "'", "\\", " ", ";", "$"}, MaxCmdLen)

\* strings.ReplaceAll(cmd, "'", "'\\''")
RECURSIVE ReplaceQuotes(_)
ReplaceQuotes(cmd) ==
    IF cmd = <<>> THEN <<>>
    ELSE (IF Head(cmd) = "'" THEN <<"'", "\\", "'", "'">> ELSE <<Head(cmd)>>)
         \o ReplaceQuotes(Tail(cmd))

\* An escape that wraps in single quotes and replaces nothing.
escapeByWrappingOnly(cmd) == <<"'">> \o cmd \o <<"'">>

\* escapeBashCommand
escapeBashCommand(cmd) == <<"'">> \o ReplaceQuotes(cmd) \o <<"'">>

\* The line of the wrapper script that runs the command: bash -c %s
\* (the words bash and -c stand as the one word "sh").
WrapperLine(command) == <<"sh", " ">> \o escapeBashCommand(command)

\* The shell's token recognition (POSIX 2.2, 2.3) on one line: outside
\* quotes a blank ends a word, a backslash keeps the next character, a
\* single quote opens a quoted part, an operator is a token of its own and
\* a dollar sign starts an expansion; inside single quotes every character
\* up to the next single quote is kept.  The result is the list of words;
\* the one-element words "OPERATOR", "EXPANSION" and "UNTERMINATED", which
\* no command can spell, mark what is not a plain word.
RECURSIVE ShellWordsFrom(_, _, _, _, _)
ShellWordsFrom(line, i, quoted, inWord, cur) ==
    LET close == IF inWord THEN <<cur>> ELSE <<>>
    IN  IF i > Len(line)
        THEN IF quoted THEN << <<"UNTERMINATED">> >> ELSE close
        ELSE IF quoted
        THEN IF line[i] = "'"
             THEN ShellWordsFrom(line, i + 1, FALSE, TRUE, cur)
             ELSE ShellWordsFrom(line, i + 1, TRUE, TRUE, Append(cur, line[i]))
        ELSE IF line[i] = "'"
        THEN ShellWordsFrom(line, i + 1, TRUE, TRUE, cur)
        ELSE IF line[i] = "\\"
        THEN IF i = Len(line)
             THEN ShellWordsFrom(line, i + 1, FALSE, TRUE, Append(cur, "\\"))
             ELSE ShellWordsFrom(line, i + 2, FALSE, TRUE,
                                 Append(cur, line[i + 1]))
        ELSE IF line[i] = " "
        THEN close \o ShellWordsFrom(line, i + 1, FALSE, FALSE, <<>>)
        ELSE IF line[i] = ";"
        THEN close \o << <<"OPERATOR">> >>
                   \o ShellWordsFrom(line, i + 1, FALSE, FALSE, <<>>)
        ELSE IF line[i] = "$"
        THEN close \o << <<"EXPANSION">> >>
                   \o ShellWordsFrom(line, i + 1, FALSE, FALSE, <<>>)
        ELSE ShellWordsFrom(line, i + 1, FALSE, TRUE, Append(cur, line[i]))

\* StartTask builds the wrapper script's command line for a command.
EscWrite ==
    /\ fn.op = "escape"
    /\ fn.stage = "command"
    /\ fn' = [fn EXCEPT !.stage = "script", !.line = WrapperLine(fn.x)]
    /\ UNCHANGED <<taskVars, sinkVars, sigLog, req, resp, tailVars,
                   allowedOrigins, up, wr, wsm, rl>>

\* bash reads the line.
EscRead ==
    /\ fn.op = "escape"
    /\ fn.stage = "script"
    /\ fn' = [fn EXCEPT !.stage = "read", !.words = ShellWordsFrom(fn.line, 1, FALSE, FALSE,
                                                <<>>)]
    /\ UNCHANGED <<taskVars, sinkVars, sigLog, req, resp, tailVars,
                   allowedOrigins, up, wr, wsm, rl>>

EscInit ==
    /\ InitCommon
    /\ allowedOrigins = <<>>
    /\ fn \in {[op |-> "escape", stage |-> "command", x |-> x,
                line |-> <<>>, words |-> <<>>] : x \in CmdStrings}

EscNext ==
    \/ EscWrite
    \/ EscRead

EscSpec == EscInit /\ [][EscNext]_vars

\* C18: for every string x, shell_escape(x) read under the shell's
\* single-quote rules is exactly one word whose value is x: the command
\* line of the wrapper script is the word of the shell followed by the one
\* argument x, whatever quotes, backslashes, blanks, operators or dollar
\* signs x contains.
C18_EscapeIsOneWord ==
    (fn.op = "escape" /\ fn.stage = "read") => fn.words = << <<"sh">>, fn.x >>

\* A command with a quote, an operator and a dollar sign was escaped and
\* read back.
C18_Witness ==
    /\ fn.op = "escape"
    /\ fn.stage = "read"
    /\ fn.x = <<"'", ";", "$">>
    /\ fn.words = << <<"sh">>, fn.x >>


\* ---------------------------------------------------------------------
\* validateAndProcessParameters
\* ---------------------------------------------------------------------

MaxParams == 2

\* The parameter names a task may define.
ParamPool == <<"filename", "timeout", "message">>

\* []ParameterConfig as loadConfig admits it: names unique, each type int
\* or string.  The definitions are listed in the order of ParamPool.
RECURSIVE DefListsFrom(_)
DefListsFrom(i) ==
    IF i > Min(MaxParams, Len(ParamPool)) THEN {<<>>}
    ELSE LET rest == DefListsFrom(i + 1)
         IN  rest \cup
             {<<[Name |-> ParamPool[i], Type |-> ty, Optional |-> opt]>> \o r :
                 ty \in {"int", "string"}, opt \in BOOLEAN, r \in rest}

\* Values as encoding/json decodes them into interface{}: strings, numbers
\* (float64: sign, integer part, one fractional digit or none) and null.
ParamValues ==
    {[go |-> "string", text |-> t, neg |-> FALSE, int |-> 0, frac |-> 0] :
        t \in {<<"a", ".">>, <<"7">>, <<"a", " ">>}}
    \cup {[go |-> "float64", text |-> <<>>, neg |-> FALSE, int |-> 7, frac |-> 0],
          [go |-> "float64", text |-> <<>>, neg |-> FALSE, int |-> 1, frac |-> 5],
          [go |-> "float64", text |-> <<>>, neg |-> TRUE, int |-> 5, frac |-> 0],
          [go |-> "nil", text |-> <<>>, neg |-> FALSE, int |-> 0, frac |-> 0]}

\* map[string]interface{} over the names that may be defined and the name
\* "key" that no task defines.
ProvidedMaps ==
    LET names == {ParamPool[i] : i \in 1..Min(MaxParams, Len(ParamPool))}
                 \cup {"key"}
    IN  UNION {[S -> ParamValues] : S \in SUBSET names}

DigitChars == <<"0", "1", "2", "3", "4", "5", "6", "7", "8", "9">>

\* strconv.FormatInt(int64(v), 10) for |v| < 10
FormatInt(v) == (IF v.neg THEN <<"-">> ELSE <<>>) \o <<DigitChars[v.int + 1]>>

\* strconv.FormatFloat(v, 'f', -1, 64)
FormatFloat(v) ==
    FormatInt(v) \o (IF v.frac = 0 THEN <<>>
                     ELSE <<".", DigitChars[v.frac + 1]>>)

\* intParamRegex ^[0-9]+$ and stringParamRegex ^[-a-zA-Z0-9_:,\.]+$
IntParamChars == Range(DigitChars)
StringParamChars == IntParamChars \cup {"a", "-", "_", ":", ",", "."}
MatchesAll(text, chars) ==
    text # <<>> /\ \A i \in DOMAIN text : text[i] \in chars

\* validateParameterValue: the value as a string, or the refusal.
validateParameterValue(paramType, value) ==
    LET fail == [ok |-> FALSE, text |-> <<>>]
        conv == IF value.go = "string" THEN [ok |-> TRUE, text |-> value.text]
                ELSE IF value.go = "float64"
                THEN IF paramType = "int"
                     THEN IF value.frac # 0 THEN fail
                          ELSE [ok |-> TRUE, text |-> FormatInt(value)]
                     ELSE [ok |-> TRUE, text |-> FormatFloat(value)]
                ELSE fail
    IN  IF ~conv.ok THEN fail
        ELSE IF paramType = "int"
        THEN IF MatchesAll(conv.text, IntParamChars) THEN conv ELSE fail
        ELSE IF paramType = "string"
        THEN IF MatchesAll(conv.text, StringParamChars) THEN conv ELSE fail
        ELSE fail

NoValidated == [ok |-> FALSE, validated |-> <<>>]

\* The loop over the definitions, from definition i on.
RECURSIVE ValidateDefined(_, _, _, _)
ValidateDefined(paramDefs, providedMap, i, validated) ==
    IF i > Len(paramDefs) THEN [ok |-> TRUE, validated |-> validated]
    ELSE LET paramDef == paramDefs[i]
             provided == paramDef.Name \in DOMAIN providedMap
         IN  IF ~paramDef.Optional /\ ~provided THEN NoValidated
             ELSE IF paramDef.Optional /\ ~provided
             THEN ValidateDefined(paramDefs, providedMap, i + 1, validated)
             ELSE LET v == validateParameterValue(paramDef.Type,
                                                  providedMap[paramDef.Name])
                  IN  IF ~v.ok THEN NoValidated
                      ELSE ValidateDefined(paramDefs, providedMap, i + 1,
                                           Put(validated, paramDef.Name, v.text))

\* The check for parameters that no definition names.
AllDefined(paramDefs, providedMap) ==
    \A paramName \in DOMAIN providedMap :
        \E j \in DOMAIN paramDefs : paramDefs[j].Name = paramName

\* The function without its check for unknown parameters.
validateWithoutUnknownCheck(paramDefs, providedParams) ==
    IF Len(paramDefs) = 0
    THEN IF providedParams # <<>> THEN NoValidated
         ELSE [ok |-> TRUE, validated |-> <<>>]
    ELSE ValidateDefined(paramDefs, providedParams, 1, <<>>)

\* validateAndProcessParameters
validateAndProcessParameters(paramDefs, providedParams) ==
    IF Len(paramDefs) = 0
    THEN IF providedParams # <<>> THEN NoValidated
         ELSE [ok |-> TRUE, validated |-> <<>>]
    ELSE LET r == ValidateDefined(paramDefs, providedParams, 1, <<>>)
         IN  IF ~r.ok THEN r
             ELSE IF ~AllDefined(paramDefs, providedParams) THEN NoValidated
             ELSE r

\* StartTask calls validateAndProcessParameters.
ParamValidate ==
    /\ fn.op = "params"
    /\ fn.stage = "call"
    /\ fn' = [fn EXCEPT !.stage = "returned",
                        !.result = validateAndProcessParameters(fn.defs,
                                                               fn.provided)]
    /\ UNCHANGED <<taskVars, sinkVars, sigLog, req, resp, tailVars,
                   allowedOrigins, up, wr, wsm, rl>>

ParamInit ==
    /\ InitCommon
    /\ allowedOrigins = <<>>
    /\ fn \in {[op |-> "params", stage |-> "call", defs |-> d,
                provided |-> pm, result |-> NoValidated] :
                   d \in DefListsFrom(1), pm \in ProvidedMaps}

ParamSpec == ParamInit /\ [][ParamValidate]_vars

\* (a) every definition that is not optional has a provided value
RequiredPresent(defs, provided) ==
    \A j \in DOMAIN defs : ~defs[j].Optional => defs[j].Name \in DOMAIN provided

\* (b) every provided name has a definition
NoUnknownName(defs, provided) ==
    DOMAIN provided \subseteq {defs[j].Name : j \in DOMAIN defs}

\* (c) every provided value passes the check of its definition's type
ValuesPass(defs, provided) ==
    \A j \in DOMAIN defs :
        defs[j].Name \in DOMAIN provided
            => validateParameterValue(defs[j].Type, provided[defs[j].Name]).ok

\* C19: validate_and_normalize_parameters succeeds exactly when every
\* non-optional definition is provided, every provided name is defined and
\* every provided value passes its type check; on success the keys of the
\* result are the provided names, so optionals that are absent stay absent.
C19_ParametersAcceptedIff ==
    (fn.op = "params" /\ fn.stage = "returned") =>
        /\ fn.result.ok <=> /\ RequiredPresent(fn.defs, fn.provided)
                            /\ NoUnknownName(fn.defs, fn.provided)
                            /\ ValuesPass(fn.defs, fn.provided)
        /\ fn.result.ok => DOMAIN fn.result.validated = DOMAIN fn.provided

\* A required and an optional parameter are defined, only the required one
\* is provided, and the call succeeded.
C19_Witness ==
    /\ fn.op = "params"
    /\ fn.stage = "returned"
    /\ Len(fn.defs) = 2
    /\ ~fn.defs[1].Optional
    /\ fn.defs[2].Optional
    /\ DOMAIN fn.provided = {fn.defs[1].Name}
    /\ fn.result.ok
    /\ DOMAIN fn.result.validated = {fn.defs[1].Name}


\* ---------------------------------------------------------------------
\* normalizeJSON on reformatted bodies
\* ---------------------------------------------------------------------

MaxMembers == 2
MaxWs == 2

\* The member lists of up to n members: << <<key, value>>, ... >>.
RECURSIVE MemberLists(_)
MemberLists(n) ==
    IF n = 0 THEN {<<>>}
    ELSE LET shorter == MemberLists(n - 1)
         IN  shorter \cup {Append(ms, <<k, v>>) :
                              ms \in shorter, k \in JsonKeys,
                              v \in {"echo", "{}"}}

\* The compact text of an object with the given members, in their order.
RECURSIVE MembersText(_, _)
MembersText(ms, i) ==
    IF i > Len(ms) THEN <<>>
    ELSE (IF i = 1 THEN <<>> ELSE <<",">>) \o <<ms[i][1], ":", ms[i][2]>>
         \o MembersText(ms, i + 1)

JsonTexts == {<<"{">> \o MembersText(ms, 1) \o <<"}">> :
                 ms \in MemberLists(MaxMembers)}

\* The client sends the same body with one more blank between two tokens
\* (or before the first, or after the last).
InsertWhitespace ==
    /\ fn.op = "normalize"
    /\ Len(SelectSeq(fn.text, LAMBDA tk : tk = " ")) < MaxWs
    /\ \E i \in 0..Len(fn.text) :
          fn' = [fn EXCEPT !.text = SubSeq(fn.text, 1, i) \o <<" ">>
                                    \o SubSeq(fn.text, i + 1, Len(fn.text))]
    /\ UNCHANGED <<taskVars, sinkVars, sigLog, req, resp, tailVars,
                   allowedOrigins, up, wr, wsm, rl>>

\* The client sends the same body with two neighbouring members of
\* different keys in the other order (member g starts at token 2 + 4g).
SwapMembers ==
    /\ fn.op = "normalize"
    /\ fn.text = StripWs(fn.text)
    /\ JsonWellFormed(fn.text)
    /\ \E g \in 0..(JsonMembers(fn.text) - 2) :
          LET a == 2 + 4 * g
              t == fn.text
          IN  /\ t[a] # t[a + 4]
              /\ fn' = [fn EXCEPT !.text =
                           [j \in DOMAIN t |->
                               IF j \in a..(a + 2) THEN t[j + 4]
                               ELSE IF j \in (a + 4)..(a + 6) THEN t[j - 4]
                               ELSE t[j]]]
    /\ UNCHANGED <<taskVars, sinkVars, sigLog, req, resp, tailVars,
                   allowedOrigins, up, wr, wsm, rl>>

\* The body is put into canonical form (as the client does before it
\* hashes, and the server again on receipt).
Normalize ==
    /\ fn.op = "normalize"
    /\ normalizeJSON(fn.text).ok
    /\ fn.text # normalizeJSON(fn.text).bytes
    /\ fn' = [fn EXCEPT !.text = normalizeJSON(fn.text).bytes,
                        !.normalized = TRUE]
    /\ UNCHANGED <<taskVars, sinkVars, sigLog, req, resp, tailVars,
                   allowedOrigins, up, wr, wsm, rl>>

NormInit ==
    /\ InitCommon
    /\ allowedOrigins = <<>>
    /\ fn \in {[op |-> "normalize", orig |-> b, text |-> b,
                normalized |-> FALSE] : b \in JsonTexts}

NormNext ==
    \/ InsertWhitespace
    \/ SwapMembers
    \/ Normalize

NormSpec == NormInit /\ [][NormNext]_vars

\* The digest the server compares with body_sha1.
BodyDigest(text) == computeSHA1Hex(normalizeJSON(text).bytes)

\* C20: the canonical form is idempotent, and bodies that differ only in
\* whitespace and in the order of their keys have the same canonical form
\* and so the same body_sha1.
C20_CanonicalFormInvariant ==
    fn.op = "normalize" =>
        /\ normalizeJSON(fn.text).ok
        /\ normalizeJSON(normalizeJSON(fn.text).bytes)
               = normalizeJSON(fn.text)
        /\ BodyDigest(fn.text) = BodyDigest(fn.orig)

\* A body of two members was reordered and spaced out, and is not the
\* text the client started from nor its canonical form.
C20_Witness ==
    /\ fn.op = "normalize"
    /\ ~fn.normalized
    /\ JsonMembers(StripWs(fn.orig)) = 2
    /\ StripWs(fn.text) # fn.orig
    /\ fn.text # StripWs(fn.text)
    /\ fn.text # normalizeJSON(fn.text).bytes
    /\ BodyDigest(fn.text) = BodyDigest(fn.orig)

(***************************************************************************)
(* Viewer tokens                                                           *)
(***************************************************************************)

\* The secrets a token can be signed and verified with.
Secrets == {"secret-a", "secret-b"}

\* A viewer token that carries no aud claim.
generateTokenWithoutAudience(taskID, secret, now, expiration) ==
    [alg |-> "HS256", key |-> secret, TaskID |-> taskID,
     ExpiresAt |-> <<now + expiration>>, Audience |-> <<>>]

\* generateViewerToken: HS256 under the secret, task_id, exp = now +
\* expiration (in whole seconds, the precision of a NumericDate) and
\* aud = ["viewer"].
generateViewerToken(taskID, secret, now, expiration) ==
    [alg |-> "HS256", key |-> secret, TaskID |-> taskID,
     ExpiresAt |-> <<now + expiration>>, Audience |-> <<"viewer">>]

\* The token as validateJWT finds it when it verifies with the given
\* secret: an HMAC signature verifies exactly under the key it was made with.
ParsedWith(tok, secret) ==
    [present |-> TRUE, alg |-> tok.alg, sigOK |-> tok.key = secret,
     ExpiresAt |-> tok.ExpiresAt, Audience |-> tok.Audience,
     TaskID |-> tok.TaskID, BodySHA1 |-> NoHash]

\* A token is issued for the task id of the call.
TokIssue ==
    /\ fn.op = "token"
    /\ fn.stage = "input"
    /\ fn' = [fn EXCEPT !.stage = "issued",
                        !.tok = generateViewerToken(fn.id, fn.secret,
                                                    fn.now, fn.ttl)]
    /\ UNCHANGED <<taskVars, sinkVars, sigLog, req, resp, tailVars,
                   allowedOrigins, up, wr, wsm, rl>>

\* The token is presented at some later time to a server that verifies
\* with some secret and expects some audience.
TokVerify ==
    /\ fn.op = "token"
    /\ fn.stage = "issued"
    /\ \E secret \in Secrets, expected \in {AudNil, AudApi, AudViewer},
          at \in fn.now..(fn.now + fn.ttl + 1) :
          LET t == ParsedWith(fn.tok, secret)
              err == validateJWT(t, at, expected)
          IN  fn' = [fn EXCEPT !.stage = "verified",
                               !.key = secret,
                               !.expected = expected,
                               !.at = at,
                               !.result = err,
                               !.claims = IF err = "ok"
                                          THEN <<t.TaskID>> ELSE <<>>]
    /\ UNCHANGED <<taskVars, sinkVars, sigLog, req, resp, tailVars,
                   allowedOrigins, up, wr, wsm, rl>>

TokInit ==
    /\ InitCommon
    /\ allowedOrigins = <<>>
    /\ fn \in {[op |-> "token", stage |-> "input", id |-> id,
                secret |-> s, now |-> n, ttl |-> d,
                tok |-> generateViewerToken("", "", 0, 0),
                key |-> "", expected |-> AudNil, at |-> 0,
                result |-> "", claims |-> <<>>] :
                  id \in IdPool, s \in Secrets, n \in 0..MaxClock,
                  d \in 0..MaxClock}

TokNext ==
    \/ TokIssue
    \/ TokVerify

TokSpec == TokInit /\ [][TokNext]_vars

\* C21: a token issued for a task id is accepted, before it expires, by a
\* verification with the same secret that expects the viewer audience, and
\* the claims then name that task id; it is rejected when the API audience
\* is expected and when any other secret is used.
C21_ViewerTokenRoundTrip ==
    (fn.op = "token" /\ fn.stage = "verified") =>
        /\ (fn.key = fn.secret /\ fn.expected = AudViewer
                /\ fn.at < fn.now + fn.ttl)
              => (fn.result = "ok" /\ fn.claims = <<fn.id>>)
        /\ fn.expected = AudApi => fn.result # "ok"
        /\ fn.key # fn.secret => fn.result # "ok"

\* A token was accepted as a viewer token under the secret it was made
\* with, one second before it expires.
C21_Witness ==
    /\ fn.op = "token"
    /\ fn.stage = "verified"
    /\ fn.key = fn.secret
    /\ fn.expected = AudViewer
    /\ fn.ttl > 0
    /\ fn.at = fn.now + fn.ttl - 1
    /\ fn.result = "ok"
    /\ fn.claims = <<fn.id>>

(***************************************************************************)
(* The shutdown broadcast                                                  *)
(***************************************************************************)

MaxSinks == 2

\* The connections the WebSocketManager can hold.
Sinks == 1..MaxSinks

\* Add: the handler of a new connection registers its safeConn.  The call
\* waits for wsm.mu, which a broadcast holds from its start to its end.
WsAdd(c) ==
    /\ up
    /\ wsm.pc = "idle"
    /\ c \notin wsm.connections
    /\ attached[c] = ""
    /\ wsm' = [wsm EXCEPT !.connections = @ \cup {c}]
    /\ attached' = [attached EXCEPT ![c] = IdOrder[1]]
    /\ UNCHANGED <<taskVars, eng, frames, sigLog, req, resp, tailVars,
                   allowedOrigins, up, wr, fn, rl>>

\* Remove: the handler of a connection returns, its safeConn is taken out
\* of the set and the connection closed.
WsRemove(c) ==
    /\ wsm.pc = "idle"
    /\ c \in wsm.connections
    /\ wsm' = [wsm EXCEPT !.connections = @ \ {c}]
    /\ attached' = [attached EXCEPT ![c] = ""]
    /\ UNCHANGED <<taskVars, eng, frames, sigLog, req, resp, tailVars,
                   allowedOrigins, up, wr, fn, rl>>

\* BroadcastShutdown is called: wsm.mu is taken (after the goroutines
\* inside Add, Remove and Count have left), the message marshalled, and the
\* loop over the connections begins.
BcBegin ==
    /\ up
    /\ wsm.pc = "idle"
    /\ fn.op = "registry" => (fn.writer = 0 /\ fn.readers = 0)
    /\ up' = FALSE
    /\ wsm' = [wsm EXCEPT !.pc = "loop", !.todo = wsm.connections]
    /\ UNCHANGED <<taskVars, sinkVars, sigLog, req, resp, tailVars,
                   allowedOrigins, wr, fn, rl>>

\* The loop comes to its next connection (a Go map is ranged over in no
\* particular order) and calls conn.mu.Lock().
BcPick(c) ==
    /\ wsm.pc = "loop"
    /\ c \in wsm.todo
    /\ \A d \in Sinks : wr[d].pc["shutdown"] = "idle"
    /\ Call(c, "shutdown")

\* A loop that gives up at the first write that fails.
BcWriteReturnOrGiveUp(c, ok) ==
    /\ wsm.pc = "loop"
    /\ wr[c].pc["shutdown"] = "writing"
    /\ frames' = IF ok THEN [frames EXCEPT ![c] = Append(@, "shutdown")]
                 ELSE frames
    /\ attached' = IF ok THEN [attached EXCEPT ![c] = ""] ELSE attached
    /\ wr' = [wr EXCEPT ![c].mu = "", ![c].pc["shutdown"] = "idle"]
    /\ wsm' = [wsm EXCEPT !.todo = IF ok THEN @ \ {c} ELSE {},
                          !.failed = IF ok THEN @ ELSE @ \cup {c}]
    /\ UNCHANGED <<taskVars, eng, sigLog, req, resp, tailVars,
                   allowedOrigins, up, fn, rl>>

\* conn.conn.WriteMessage returns for the connection of this turn of the
\* loop, with or without an error, which the loop ignores; conn.conn.Close()
\* and conn.mu.Unlock() follow, and the turn is over.
BcWriteReturn(c, ok) ==
    /\ wsm.pc = "loop"
    /\ wr[c].pc["shutdown"] = "writing"
    /\ frames' = IF ok THEN [frames EXCEPT ![c] = Append(@, "shutdown")]
                 ELSE frames
    /\ attached' = [attached EXCEPT ![c] = ""]
    /\ wr' = [wr EXCEPT ![c].mu = "", ![c].pc["shutdown"] = "idle"]
    /\ wsm' = [wsm EXCEPT !.todo = @ \ {c},
                          !.failed = IF ok THEN @ ELSE @ \cup {c}]
    /\ UNCHANGED <<taskVars, eng, sigLog, req, resp, tailVars,
                   allowedOrigins, up, fn, rl>>

\* The loop has visited every connection: BroadcastShutdown returns.
BcEnd ==
    /\ wsm.pc = "loop"
    /\ wsm.todo = {}
    /\ wsm' = [wsm EXCEPT !.pc = "returned"]
    /\ UNCHANGED <<taskVars, sinkVars, sigLog, req, resp, tailVars,
                   allowedOrigins, up, wr, fn, rl>>

\* The manager with its connections, a tailer writing on each of them, and
\* the broadcast.
BcastInit ==
    /\ runningTasks = <<>>
    /\ dirs = {}
    /\ usedIds = {}
    /\ attached = [c \in Sinks |-> ""]
    /\ req = NoReq
    /\ resp = NoResp
    /\ proc = <<>>
    /\ age = <<>>
    /\ sigLog = [t \in IdPool |-> <<>>]
    /\ eng = [c \in Sinks |-> NoEngine]
    /\ frames = [c \in Sinks |-> <<>>]
    /\ file = NoFile
    /\ tail = NoTail
    /\ emitted = <<>>
    /\ allowedOrigins = <<>>
    /\ up = TRUE
    /\ wr = [c \in Sinks |-> NoWriter]
    /\ fn = NoFn
    /\ wsm = NoWsm
    /\ rl = NoRl

BcastNext ==
    \/ \E c \in Sinks : WsAdd(c)
    \/ \E c \in Sinks : WsRemove(c)
    \/ BcBegin
    \/ \E c \in Sinks : BcPick(c)
    \/ \E c \in Sinks : attached[c] # "" /\ Call(c, "stdout")
    \/ \E c \in Sinks, p \in {"stdout", "shutdown"} : MuLock(c, p)
    \/ \E c \in Sinks, p \in {"stdout", "shutdown"} : ConnWrite(c, p)
    \/ \E c \in Sinks : ConnWriteReturn(c, "stdout")
    \/ \E c \in Sinks : MuUnlock(c, "stdout")
    \/ \E c \in Sinks, ok \in BOOLEAN : BcWriteReturn(c, ok)
    \/ BcEnd

BcastSpec == BcastInit /\ [][BcastNext]_vars

\* C22: when BroadcastShutdown has returned, every connection that was
\* registered when it was called has been written exactly one shutdown
\* frame, or none if its write failed, and is closed, whatever happened to
\* the writes on the others; no connection is ever written the frame
\* twice, and none that was not registered is written it.
C22_BroadcastReachesEverySink ==
    LET Shutdowns(c) ==
            Cardinality({i \in DOMAIN frames[c] : frames[c][i] = "shutdown"})
    IN  /\ \A c \in Sinks :
               Shutdowns(c) <= (IF c \in wsm.connections THEN 1 ELSE 0)
        /\ wsm.pc = "returned" =>
               \A c \in wsm.connections :
                   /\ attached[c] = ""
                   /\ Shutdowns(c) = (IF c \in wsm.failed THEN 0 ELSE 1)

\* The broadcast has returned; the write failed on one registered
\* connection and another one has its frame and is closed.
C22_Witness ==
    /\ wsm.pc = "returned"
    /\ \E c, d \in wsm.connections :
           /\ c \in wsm.failed
           /\ d \notin wsm.failed
           /\ frames[d] = <<"shutdown">>
           /\ attached[d] = ""

\* The connection whose peer does not read: a write to it may never return.
SlowSink == MaxSinks

\* Every goroutine gets its turn, a mutex is handed to whoever waits for
\* it, and a write to a peer that reads returns.  Nothing bounds a write
\* to the peer that does not read: no write deadline is set on a
\* connection.
BcastFair ==
    /\ BcastSpec
    /\ WF_vars(\E c \in Sinks : BcPick(c))
    /\ WF_vars(BcEnd)
    /\ \A c \in Sinks :
           /\ SF_vars(MuLock(c, "shutdown"))
           /\ WF_vars(ConnWrite(c, "shutdown"))
           /\ WF_vars(ConnWrite(c, "stdout"))
           /\ WF_vars(MuUnlock(c, "stdout"))
    /\ \A c \in Sinks \ {SlowSink} :
           /\ WF_vars(ConnWriteReturn(c, "stdout"))
           /\ WF_vars(\E ok \in BOOLEAN : BcWriteReturn(c, ok))

\* C23: once the broadcast is under way, every registered connection
\* other than the one whose write blocks is in the end closed, with its
\* shutdown frame written unless its own write failed.
C23_SlowSinkDoesNotBlockOthers ==
    (wsm.pc = "loop") ~>
        (\A c \in wsm.connections \ {SlowSink} :
             /\ attached[c] = ""
             /\ (c \in wsm.failed
                   \/ \E i \in DOMAIN frames[c] : frames[c][i] = "shutdown"))

(***************************************************************************)
(* The rate limiter                                                        *)
(***************************************************************************)

MaxRate == 2
MinuteTicks == 3

\* The addresses requests come from or name in their headers.
Hosts == <<"192.168.1.1", "192.168.1.2">>

\* A request as getIP sees it: the two headers ("" when absent) and
\* RemoteAddr as host and port.
RlRequests ==
    [xff : {"", Hosts[2]}, xri : {"", Hosts[1]},
     remote : {<<Hosts[1], "8080">>, <<Hosts[2], "8080">>}]

\* getIP: X-Forwarded-For if set, else X-Real-IP if set, else RemoteAddr
\* without its port.
getIP(r) ==
    IF r.xff # "" THEN r.xff
    ELSE IF r.xri # "" THEN r.xri
    ELSE r.remote[1]

\* A limiter that keeps one bucket for all clients.
AllowFromOneBucket(limiter, r, now) ==
    LET N == limiter.requestsPerMinute
        b == IF "" \in DOMAIN limiter.buckets THEN limiter.buckets[""]
             ELSE [tokens |-> N, lastRefill |-> now]
    IN  IF N <= 0 THEN [ok |-> TRUE, buckets |-> limiter.buckets]
        ELSE [ok |-> b.tokens > 0,
              buckets |-> [k \in DOMAIN limiter.buckets \cup {""} |->
                              [b EXCEPT !.tokens =
                                   IF @ > 0 THEN @ - 1 ELSE @]]]

\* A limiter that notes the time of every call as the last refill, tokens
\* added or not.
AllowAdvancingLastRefill(limiter, r, now) ==
    LET N == limiter.requestsPerMinute
        ip == getIP(r)
        b0 == IF ip \in DOMAIN limiter.buckets THEN limiter.buckets[ip]
              ELSE [tokens |-> N, lastRefill |-> now]
        elapsed == now - b0.lastRefill
        tokensToAdd == (N * elapsed) \div MinuteTicks
        b1 == IF elapsed >= MinuteTicks
              THEN [tokens |-> N, lastRefill |-> now]
              ELSE [tokens |-> Min(b0.tokens + tokensToAdd, N),
                    lastRefill |-> now]
        b2 == IF b1.tokens > 0 THEN [b1 EXCEPT !.tokens = @ - 1] ELSE b1
    IN  IF N <= 0 THEN [ok |-> TRUE, buckets |-> limiter.buckets]
        ELSE [ok |-> b1.tokens > 0,
              buckets |-> [k \in DOMAIN limiter.buckets \cup {ip} |->
                              IF k = ip THEN b2 ELSE limiter.buckets[k]]]

\* Allow: the verdict and the buckets after the call.  A missing bucket is
\* created full; a minute or more after the last refill the bucket is
\* refilled, before that it gains requestsPerMinute * elapsed / minute
\* tokens, rounded down, if that is at least one; a token is then taken if
\* there is one.
Allow(limiter, r, now) ==
    LET N == limiter.requestsPerMinute
        ip == getIP(r)
        b0 == IF ip \in DOMAIN limiter.buckets THEN limiter.buckets[ip]
              ELSE [tokens |-> N, lastRefill |-> now]
        elapsed == now - b0.lastRefill
        tokensToAdd == (N * elapsed) \div MinuteTicks
        b1 == IF elapsed >= MinuteTicks
              THEN [tokens |-> N, lastRefill |-> now]
              ELSE IF tokensToAdd > 0
                   THEN [tokens |-> Min(b0.tokens + tokensToAdd, N),
                         lastRefill |-> now]
                   ELSE b0
        b2 == IF b1.tokens > 0 THEN [b1 EXCEPT !.tokens = @ - 1] ELSE b1
    IN  IF N <= 0 THEN [ok |-> TRUE, buckets |-> limiter.buckets]
        ELSE [ok |-> b1.tokens > 0,
              buckets |-> [k \in DOMAIN limiter.buckets \cup {ip} |->
                              IF k = ip THEN b2 ELSE limiter.buckets[k]]]

\* RateLimitMiddleware serves a request: 429 and the error body when
\* Allow refuses it, the wrapped handler otherwise.  burst counts, per
\* address and since the clock last moved, the requests, those handed to
\* the handler and those refused.
RateLimitMiddleware(r) ==
    LET a == Allow(rl, r, rl.now)
        ip == getIP(r)
    IN  /\ rl.burst[ip].seen < MaxRate + 2
        /\ rl' = [rl EXCEPT
                    !.buckets = a.buckets,
                    !.burst[ip] =
                        [seen |-> @.seen + 1,
                         handled |-> @.handled + (IF a.ok THEN 1 ELSE 0),
                         refused |-> @.refused + (IF a.ok THEN 0 ELSE 1)],
                    !.last = IF a.ok
                             THEN [status |-> 200, body |-> "handler"]
                             ELSE [status |-> 429,
                                   body |-> "{\"error\":\"Rate limit exceeded\"}"]]
        /\ UNCHANGED <<taskVars, sinkVars, sigLog, req, resp, tailVars,
                       allowedOrigins, up, wr, fn, wsm>>

NoBurst == [seen |-> 0, handled |-> 0, refused |-> 0]

\* Time passes.
RlTick ==
    /\ rl.now < MaxClock + MinuteTicks
    /\ rl' = [rl EXCEPT !.now = @ + 1,
                        !.burst = [ip \in DOMAIN rl.burst |-> NoBurst]]
    /\ UNCHANGED <<taskVars, sinkVars, sigLog, req, resp, tailVars,
                   allowedOrigins, up, wr, fn, wsm>>

\* NewRateLimiter(requestsPerMinute), for every configured rate.
RlInit ==
    /\ runningTasks = <<>>
    /\ dirs = {}
    /\ usedIds = {}
    /\ attached = [c \in Conns |-> ""]
    /\ req = NoReq
    /\ resp = NoResp
    /\ proc = <<>>
    /\ age = <<>>
    /\ sigLog = [t \in IdPool |-> <<>>]
    /\ eng = [c \in Conns |-> NoEngine]
    /\ frames = [c \in Conns |-> <<>>]
    /\ file = NoFile
    /\ tail = NoTail
    /\ emitted = <<>>
    /\ allowedOrigins = <<>>
    /\ up = TRUE
    /\ wr = [c \in Conns |-> NoWriter]
    /\ fn = NoFn
    /\ wsm = NoWsm
    /\ \E N \in -1..MaxRate :
           rl = [requestsPerMinute |-> N, buckets |-> <<>>, now |-> 0,
                 burst |-> [ip \in Range(Hosts) |-> NoBurst],
                 last |-> [status |-> 0, body |-> ""]]

RlNext ==
    \/ \E r \in RlRequests : RateLimitMiddleware(r)
    \/ RlTick

RlSpec == RlInit /\ [][RlNext]_vars

\* C24: while no time has passed, of the requests of one address exactly
\* the first requestsPerMinute have reached the handler and all later ones
\* were answered 429 with the error body, whatever the other addresses
\* sent; with a rate of zero or less every request reaches the handler.
C24_BurstLimitedPerIP ==
    ("now" \in DOMAIN rl /\ rl.now = 0) =>
        LET N == rl.requestsPerMinute
        IN  /\ \A ip \in DOMAIN rl.burst :
                   /\ rl.burst[ip].handled =
                          (IF N <= 0 THEN rl.burst[ip].seen
                           ELSE Min(rl.burst[ip].seen, N))
                   /\ rl.burst[ip].refused =
                          rl.burst[ip].seen - rl.burst[ip].handled
            /\ rl.last.status = 429 =>
                   rl.last.body = "{\"error\":\"Rate limit exceeded\"}"

\* One address has used up its allowance and was refused, and the other
\* still had all its requests handled.
C24_Witness ==
    /\ "now" \in DOMAIN rl
    /\ rl.now = 0
    /\ rl.requestsPerMinute = MaxRate
    /\ rl.burst[Hosts[1]].handled = MaxRate
    /\ rl.burst[Hosts[1]].refused > 0
    /\ rl.burst[Hosts[2]].handled = MaxRate
    /\ rl.burst[Hosts[2]].refused = 0
    /\ rl.last.status = 429

(***************************************************************************)
(* Properties of the Timeout Engine                                        *)
(***************************************************************************)

C26_FlagsMonotone ==
    [][\A t \in IdPool :
          /\ (t \in DOMAIN runningTasks' /\ t \notin DOMAIN runningTasks)
                => (~runningTasks'[t].Terminated /\ ~runningTasks'[t].Killed)
          /\ (t \in DOMAIN runningTasks' /\ t \in DOMAIN runningTasks)
                => /\ runningTasks[t].Terminated
                          => runningTasks'[t].Terminated
                   /\ runningTasks[t].Killed => runningTasks'[t].Killed
          /\ t \in DOMAIN runningTasks'
                => (runningTasks'[t].Killed => runningTasks'[t].Terminated)
      ]_vars

\* A tracked task has both flags set and its process was sent TERM, then
\* KILL.
C26_Witness ==
    \E t \in DOMAIN runningTasks :
        /\ runningTasks[t].Terminated
        /\ runningTasks[t].Killed
        /\ Len(sigLog[t]) = 2
        /\ sigLog[t][1].sig = "TERM"
        /\ sigLog[t][2].sig = "KILL"

\* C27: the process of a task without a deadline (max_execution_time = 0)
\* is never sent a signal, and such a task never has terminated or killed
\* set, whatever the clock and the attached viewers do.
C27_UnboundedNeverSignalled ==
    [][\A t \in IdPool :
          /\ sigLog'[t] # sigLog[t]
                => /\ t \in DOMAIN runningTasks
                   /\ ConfigTasks[runningTasks[t].TaskName] > 0
          /\ (t \in DOMAIN runningTasks'
                  /\ ConfigTasks[runningTasks'[t].TaskName] = 0)
                => /\ ~runningTasks'[t].Terminated
                   /\ ~runningTasks'[t].Killed
      ]_vars

\* A viewer's engine has polled a running task that has no deadline and
\* sent nothing.
C27_Witness ==
    \E c \in Conns :
        /\ eng[c].st = "running"
        /\ eng[c].polled
        /\ eng[c].task \in DOMAIN runningTasks
        /\ ConfigTasks[runningTasks[eng[c].task].TaskName] = 0
        /\ isProcessRunning(eng[c].task)
        /\ sigLog[eng[c].task] = <<>>

(***************************************************************************)
(* Several viewers of one task                                             *)
(***************************************************************************)

\* An attach request that passed the checks of handleWebSocket, on any
\* connection that is free.
ViewAttach(c, t) ==
    /\ up
    /\ attached[c] = ""
    /\ eng[c].st = "none"
    /\ GetTask(t) = "ok"
    /\ AttachSink(c, t)
    /\ UNCHANGED <<taskVars, sigLog, req, resp, tailVars, allowedOrigins,
                   up, wr, fn, wsm, rl>>

ViewNext ==
    \/ \E n \in DOMAIN ConfigTasks : Launch(n)
    \/ \E c \in Sinks, t \in IdPool : ViewAttach(c, t)
    \/ \E t \in IdPool : ProcExit(t)
    \/ \E t \in IdPool : Reap(t)
    \/ Tick
    \/ \E c \in Sinks : EngineStep(c)

\* Tasks with up to MaxSinks viewers attached at the same time, each with
\* its own engine.
ViewSpec == BcastInit /\ [][ViewNext]_vars

\* C28: a step that deletes the output directory of a task is taken by an
\* engine that has been through its Done steps (completed frame, removal,
\* close), when the task is no longer in the Supervisor's map and no sink
\* is attached to the task any more.
C28_DeleteAfterAllSinksClosed ==
    [][\A t \in IdPool :
          (t \in dirs /\ t \notin dirs')
              => /\ \E c \in DOMAIN eng :
                        eng[c].st = "closed" /\ eng[c].task = t
                 /\ t \notin DOMAIN runningTasks
                 /\ \A c \in DOMAIN attached : attached[c] # t
      ]_vars

(***************************************************************************)
(* Further properties of the tailer                                        *)
(***************************************************************************)

\* C29: the records of the stream, the waiting notice aside, are each one
\* line ending in its newline, and put one after the other they are at all
\* times a prefix of what is in the file: no record carries a line whose
\* newline is not on disk.
C29_RecordsArePrefixOfFile ==
    LET notice == <<"Waiting for output file...", "\n">>
        RECURSIVE Concat(_)
        Concat(rs) == IF rs = <<>> THEN <<>>
                      ELSE Head(rs) \o Concat(Tail(rs))
        recs == SelectSeq(emitted, LAMBDA r : r # notice)
        text == Concat(recs)
    IN  /\ \A k \in DOMAIN recs :
               /\ recs[k][Len(recs[k])] = "\n"
               /\ \A j \in 1..(Len(recs[k]) - 1) : recs[k][j] # "\n"
        /\ Len(text) <= Len(file.data)
        /\ text = SubSeq(file.data, 1, Len(text))

AttachProducers == {"stdout", "stderr", "ping", "system"}

\* The peer of the connection goes away: from now on writes fail.
PeerGone(c) ==
    /\ ~wr[c].gone
    /\ wr' = [wr EXCEPT ![c].gone = TRUE]
    /\ UNCHANGED <<taskVars, sinkVars, sigLog, req, resp, tailVars,
                   allowedOrigins, up, fn, wsm, rl>>

\* A tailer has a record, the ticker fires, the engine has a notice: the
\* producer calls WriteMessage.  A tailer tests the context before every
\* record; a producer that has returned produces nothing.
Produce(c, p) ==
    /\ p \in {"stdout", "stderr"} => ~wr[c].ctx
    /\ Call(c, p)

\* conn.WriteMessage returns an error and the mutex is released.  A tailer
\* returns; the ping loop returns, and with the handler's return the
\* request's context is cancelled; sendSystemMessage drops the error, so
\* its caller goes on.
ConnWriteFail(c, p) ==
    /\ wr[c].pc[p] = "writing"
    /\ wr[c].gone
    /\ wr' = [wr EXCEPT ![c].mu = "",
                        ![c].failed = @ \cup {p},
                        ![c].ctx = IF p = "ping" THEN TRUE ELSE @,
                        ![c].pc[p] = IF p = "system" THEN "idle"
                                     ELSE "returned"]
    /\ UNCHANGED <<taskVars, sinkVars, sigLog, req, resp, tailVars,
                   allowedOrigins, up, fn, wsm, rl>>

PeerNext ==
    \/ \E c \in Conns : PeerGone(c)
    \/ \E c \in Conns, p \in AttachProducers : Produce(c, p)
    \/ \E c \in Conns, p \in AttachProducers : MuLock(c, p)
    \/ \E c \in Conns, p \in AttachProducers : ConnWrite(c, p)
    \/ \E c \in Conns, p \in AttachProducers :
           ~wr[c].gone /\ ConnWriteReturn(c, p)
    \/ \E c \in Conns, p \in AttachProducers : MuUnlock(c, p)
    \/ \E c \in Conns, p \in AttachProducers : ConnWriteFail(c, p)

\* One attach, its four producers, and a peer that may go away.
PeerSpec == LifeInit /\ [][PeerNext]_vars

\* C31: once a write has failed on a sink, no producer of the attach
\* starts another write on it.
C31_NoWriteAfterFailure ==
    [][\A c \in Conns : \A p \in AttachProducers :
          wr[c].failed # {}
              => ~(wr[c].pc[p] = "idle" /\ wr'[c].pc[p] = "want")
      ]_vars

(***************************************************************************)
(* StartTask with its parameters: the three validations and what follows.  *)
(***************************************************************************)

\* Parameters of the configured tasks: "echo" takes a required file name,
\* "sleepy" an optional number.
ConfigParameters ==
    [n \in DOMAIN ConfigTasks |->
        IF n = "echo"
        THEN <<[Name |-> "filename", Type |-> "string", Optional |-> FALSE]>>
        ELSE <<[Name |-> "timeout", Type |-> "int", Optional |-> TRUE]>>]

\* The names StartTask is called with, and the parameter maps: at most one
\* of a defined name or the undefined "key", with every decoded value.
StartNames == {"echo", "sleepy", "other", "a/b", ""}
StartParameters ==
    {<<>>} \cup UNION {[{n} -> ParamValues] : n \in {"filename", "timeout", "key"}}

\* A launch that makes the output directory before it looks at the
\* parameters.
StartTaskMkdirBeforeValidation(taskName, parameters, fault) ==
    LET o == StartTaskOutcome(taskName, fault)
    IN  IF o.err \in {"invalid task name", "task not found in configuration"}
        THEN o
        ELSE IF ~validateAndProcessParameters(ConfigParameters[taskName],
                                              parameters).ok
        THEN [err |-> "parameter validation failed", id |-> NewUUID,
              mkdir |-> TRUE, spawned |-> FALSE, registered |-> FALSE]
        ELSE o

\* StartTask(taskName, parameters): the name, the definition and the
\* parameters are checked, in this order, before the identifier is drawn
\* and the directory made.
StartTaskWithParameters(taskName, parameters, fault) ==
    LET o == StartTaskOutcome(taskName, fault)
    IN  IF o.err \in {"invalid task name", "task not found in configuration"}
        THEN o
        ELSE IF ~validateAndProcessParameters(ConfigParameters[taskName],
                                              parameters).ok
        THEN [err |-> "parameter validation failed", id |-> "",
              mkdir |-> FALSE, spawned |-> FALSE, registered |-> FALSE]
        ELSE o

\* One call of StartTask; fn keeps the call and the error it returned.
StartTaskCall(taskName, parameters, fault) ==
    /\ Cardinality(usedIds) < MaxTasks
    /\ LET o == StartTaskWithParameters(taskName, parameters, fault)
       IN  /\ StartTask(taskName, o)
           /\ fn' = [op |-> "StartTask", taskName |-> taskName,
                     parameters |-> parameters, err |-> o.err]
    /\ UNCHANGED <<sinkVars, sigLog, req, resp, tailVars, allowedOrigins, up,
                   wr, wsm, rl>>

\* Between the calls a started process may end on its own.
StartNext ==
    \/ \E n \in StartNames, pm \in StartParameters, f \in Faults :
           StartTaskCall(n, pm, f)
    \/ \E t \in IdPool : ProcExit(t)

StartSpec == LifeInit /\ [][StartNext]_vars

ValidationErrors == {"invalid task name", "task not found in configuration",
                     "parameter validation failed"}

\* C32: a launch that failed at the validation of the task name, at the
\* lookup of the definition or at the validation of the parameters has
\* made no output directory (the wrapper script lives in it), started no
\* process and left the Supervisor's map as it was.  The step of a call is
\* the one that writes the call's record or draws an identifier.
C32_FailedValidationHasNoEffect ==
    [][(/\ fn' # fn \/ usedIds' # usedIds
        /\ fn'.op = "StartTask"
        /\ fn'.err \in ValidationErrors)
          => /\ dirs' = dirs
             /\ proc' = proc
             /\ runningTasks' = runningTasks
      ]_vars

\* A launch of "echo" was refused for the file name it was given.
\* Another launch had made a directory, a process and an entry.
C32_Witness ==
    /\ fn.op = "StartTask"
    /\ fn.err = "parameter validation failed"
    /\ fn.taskName = "echo"
    /\ "filename" \in DOMAIN fn.parameters
    /\ runningTasks # <<>>
    /\ dirs # {}

(***************************************************************************)
(* Concurrent launches: StartTask, RemoveTask and GetAllTasks on tm.mu.    *)
(***************************************************************************)

\* The goroutines that call StartTask, one launch each.
Callers == 1..MaxTasks

\* fn holds the callers (where each is, the name it launches, the
\* identifier it drew), tm.mu (the holder of the write lock, the number of
\* read locks), the identifiers RemoveTask was called with, and the one
\* caller of GetAllTasks with what it was given.
LaunchesInit ==
    /\ InitCommon
    /\ allowedOrigins = <<>>
    /\ fn \in {[op |-> "launches", pc |-> [k \in Callers |-> "idle"],
                name |-> nm, id |-> [k \in Callers |-> ""],
                writer |-> 0, readers |-> 0, removed |-> {},
                lpc |-> "idle", listed |-> {}] :
                   nm \in [Callers -> DOMAIN ConfigTasks]}

\* StartTask up to the registration: the identifier is drawn, the
\* directory made and the process started.
StartPrepare(k) ==
    /\ fn.op = "launches"
    /\ fn.pc[k] = "idle"
    /\ StartTask(fn.name[k], [err |-> "", id |-> NewUUID, mkdir |-> TRUE,
                              spawned |-> TRUE, registered |-> FALSE])
    /\ fn' = [fn EXCEPT !.pc[k] = "started", !.id[k] = NewUUID]
    /\ UNCHANGED <<sinkVars, sigLog, req, resp, tailVars, allowedOrigins, up,
                   wr, wsm, rl>>

\* A lock that lets a writer in whoever else holds it.
RegLockWithoutExclusion(k) ==
    /\ fn.op = "launches"
    /\ fn.pc[k] = "started"
    /\ fn' = [fn EXCEPT !.pc[k] = "locked", !.writer = k]
    /\ UNCHANGED <<taskVars, sinkVars, sigLog, req, resp, tailVars,
                   allowedOrigins, up, wr, wsm, rl>>

\* tm.mu.Lock()
RegLock(k) ==
    /\ fn.op = "launches"
    /\ fn.pc[k] = "started"
    /\ fn.writer = 0
    /\ fn.readers = 0
    /\ fn' = [fn EXCEPT !.pc[k] = "locked", !.writer = k]
    /\ UNCHANGED <<taskVars, sinkVars, sigLog, req, resp, tailVars,
                   allowedOrigins, up, wr, wsm, rl>>

\* The maps that a write racing with another access can leave behind: any
\* part of the entries may be lost.
Submaps(m) == {[t \in S |-> m[t]] : S \in SUBSET DOMAIN m}

\* tm.runningTasks[taskID] = &RunningTask{...}.  With another goroutine
\* inside the lock at the same time the write is a data race.
RegWrite(k) ==
    /\ fn.op = "launches"
    /\ fn.pc[k] = "locked"
    /\ LET entered == {j \in Callers : fn.pc[j] \in {"locked", "written"}}
           put == Put(runningTasks, fn.id[k], NewRunningTask(fn.name[k]))
       IN  IF entered = {k} /\ fn.readers = 0
           THEN runningTasks' = put
           ELSE runningTasks' \in Submaps(put)
    /\ fn' = [fn EXCEPT !.pc[k] = "written"]
    /\ UNCHANGED <<dirs, usedIds, proc, age, sinkVars, sigLog, req, resp,
                   tailVars, allowedOrigins, up, wr, wsm, rl>>

\* tm.mu.Unlock(); return taskID, nil
RegUnlock(k) ==
    /\ fn.op = "launches"
    /\ fn.pc[k] = "written"
    /\ fn' = [fn EXCEPT !.pc[k] = "returned",
                        !.writer = IF fn.writer = k THEN 0 ELSE fn.writer]
    /\ UNCHANGED <<taskVars, sinkVars, sigLog, req, resp, tailVars,
                   allowedOrigins, up, wr, wsm, rl>>

\* RemoveTask(t) on a tracked task, under the write lock from its first
\* statement to its last.
RemoveCall(t) ==
    /\ fn.op = "launches"
    /\ fn.writer = 0
    /\ fn.readers = 0
    /\ t \in DOMAIN runningTasks
    /\ RemoveTask(t)
    /\ fn' = [fn EXCEPT !.removed = @ \cup {t}]
    /\ UNCHANGED <<dirs, usedIds, proc, age, sinkVars, sigLog, req, resp,
                   tailVars, allowedOrigins, up, wr, wsm, rl>>

\* GetAllTasks: tm.mu.RLock(), the tasks are copied, RUnlock on return.
ListRLock ==
    /\ fn.op = "launches"
    /\ fn.lpc = "idle"
    /\ fn.writer = 0
    /\ fn' = [fn EXCEPT !.lpc = "locked", !.readers = @ + 1]
    /\ UNCHANGED <<taskVars, sinkVars, sigLog, req, resp, tailVars,
                   allowedOrigins, up, wr, wsm, rl>>

ListRead ==
    /\ fn.op = "launches"
    /\ fn.lpc = "locked"
    /\ fn' = [fn EXCEPT !.lpc = "read", !.listed = DOMAIN runningTasks]
    /\ UNCHANGED <<taskVars, sinkVars, sigLog, req, resp, tailVars,
                   allowedOrigins, up, wr, wsm, rl>>

ListRUnlock ==
    /\ fn.op = "launches"
    /\ fn.lpc = "read"
    /\ fn' = [fn EXCEPT !.lpc = "idle", !.readers = @ - 1]
    /\ UNCHANGED <<taskVars, sinkVars, sigLog, req, resp, tailVars,
                   allowedOrigins, up, wr, wsm, rl>>

LaunchesNext ==
    \/ \E k \in Callers : StartPrepare(k)
    \/ \E k \in Callers : RegLock(k)
    \/ \E k \in Callers : RegWrite(k)
    \/ \E k \in Callers : RegUnlock(k)
    \/ \E t \in IdPool : RemoveCall(t)
    \/ ListRLock
    \/ ListRead
    \/ ListRUnlock

LaunchesSpec == LaunchesInit /\ [][LaunchesNext]_vars

\* The identifiers that launches have returned.
Returned == {fn.id[k] : k \in {j \in Callers : fn.pc[j] = "returned"}}

\* C33: the identifiers of concurrent launches are pairwise distinct; an
\* identifier that a launch returned is tracked, under the name it was
\* launched with, until it is removed; and a listing gives exactly the
\* tasks launched and not removed.
C33_ConcurrentLaunchesAllTracked ==
    fn.op = "launches" =>
        /\ \A j, k \in Callers :
              (j # k /\ fn.id[j] # "") => fn.id[j] # fn.id[k]
        /\ \A k \in Callers :
              (fn.pc[k] = "returned" /\ fn.id[k] \notin fn.removed)
                  => /\ fn.id[k] \in DOMAIN runningTasks
                     /\ runningTasks[fn.id[k]].TaskName = fn.name[k]
        /\ fn.lpc = "read" => fn.listed = Returned \ fn.removed

\* Every launch has returned, one of the tasks was removed since, and a
\* listing has just been given the others.
C33_Witness ==
    /\ fn.op = "launches"
    /\ \A k \in Callers : fn.pc[k] = "returned"
    /\ Cardinality(fn.removed) = 1
    /\ fn.lpc = "read"
    /\ fn.listed # {}

(***************************************************************************)
(* The start endpoint and a token bound to the body as it was sent.        *)
(***************************************************************************)

\* C34: a POST to the start endpoint for a configured task, with a valid
\* API token whose body_sha1 is the digest of the body exactly as sent, is
\* accepted whether or not the body holds insignificant whitespace: no
\* check of the handler refuses it (500 is left to a launch that met a
\* fault of the environment), and with 200 the task is tracked.
C34_ExactBodyHashAccepted ==
    (/\ req.ep = "start"
     /\ resp # NoResp
     /\ req.method = "POST"
     /\ validateJWT(req.token, req.at, AudApi) = "ok"
     /\ JsonWellFormed(StripWs(req.body))
     /\ DecodedTaskName(req.body) \in DOMAIN ConfigTasks
     /\ req.token.BodySHA1 = computeSHA1Hex(req.body))
        => /\ resp.status \in {200, 500}
           /\ resp.status = 200 => resp.task \in DOMAIN runningTasks

(***************************************************************************)
(* The int parameter: what is accepted and how it is rendered.             *)
(***************************************************************************)

\* C35: for a task with one int parameter and a request that provides it,
\* every number without fractional part is accepted and rendered in
\* decimal, every string of digits is accepted unchanged, and every number
\* with a fractional part is refused.
C35_IntParameterNormalised ==
    (/\ fn.op = "params"
     /\ fn.stage = "returned"
     /\ Len(fn.defs) = 1
     /\ fn.defs[1].Type = "int"
     /\ DOMAIN fn.provided = {fn.defs[1].Name})
        => LET n == fn.defs[1].Name
               v == fn.provided[n]
           IN  /\ (v.go = "float64" /\ v.frac = 0)
                     => /\ fn.result.ok
                        /\ fn.result.validated[n] = FormatInt(v)
               /\ (v.go = "string" /\ MatchesAll(v.text, IntParamChars))
                     => /\ fn.result.ok
                        /\ fn.result.validated[n] = v.text
               /\ (v.go = "float64" /\ v.frac # 0) => ~fn.result.ok

(***************************************************************************)
(* Add, Remove and Count of the WebSocketManager, called concurrently.     *)
(***************************************************************************)

\* The goroutines that call the manager.
Goroutines == 1..MaxSinks

\* fn holds the goroutines (where each is, the method it is in and the
\* sink it was given), wsm.mu (the holder of the write lock, the number of
\* read locks), what Count is about to return, the sinks added and not
\* removed since, in the order in which the calls got the lock, and whether
\* a call has found nothing to do (an Add of a registered sink, a Remove of
\* an unregistered one).
RegistryInit ==
    /\ InitCommon
    /\ allowedOrigins = <<>>
    /\ fn = [op |-> "registry", pc |-> [g \in Goroutines |-> "idle"],
             method |-> [g \in Goroutines |-> "none"],
             conn |-> [g \in Goroutines |-> 1],
             writer |-> 0, readers |-> 0,
             count |-> [g \in Goroutines |-> 0], live |-> {},
             noop |-> FALSE]

\* A goroutine calls Add(s), Remove(s) or Count().
WsmCall(g, method, s) ==
    /\ fn.op = "registry"
    /\ fn.pc[g] = "idle"
    /\ fn' = [fn EXCEPT !.pc[g] = "called", !.method[g] = method,
                        !.conn[g] = IF method = "Count" THEN 1 ELSE s]
    /\ UNCHANGED <<taskVars, sinkVars, sigLog, req, resp, tailVars,
                   allowedOrigins, up, wr, wsm, rl>>

\* A write lock that is given whoever else holds the lock.
WsmLockWithoutExclusion(g) ==
    /\ fn.op = "registry"
    /\ fn.pc[g] = "called"
    /\ fn.method[g] \in {"Add", "Remove"}
    /\ fn' = [fn EXCEPT !.pc[g] = "locked", !.writer = g,
                        !.live = IF fn.method[g] = "Add"
                                 THEN @ \cup {fn.conn[g]}
                                 ELSE @ \ {fn.conn[g]},
                        !.noop = @ \/ (fn.method[g] = "Add"
                                          <=> fn.conn[g] \in fn.live)]
    /\ UNCHANGED <<taskVars, sinkVars, sigLog, req, resp, tailVars,
                   allowedOrigins, up, wr, wsm, rl>>

\* wsm.mu.Lock() of Add and Remove, which waits for the goroutines inside
\* Add, Remove and Count and for a broadcast in its loop.  The calls take
\* effect in the order in which they get the lock.
WsmLock(g) ==
    /\ fn.op = "registry"
    /\ fn.pc[g] = "called"
    /\ fn.method[g] \in {"Add", "Remove"}
    /\ fn.writer = 0
    /\ fn.readers = 0
    /\ wsm.pc # "loop"
    /\ fn' = [fn EXCEPT !.pc[g] = "locked", !.writer = g,
                        !.live = IF fn.method[g] = "Add"
                                 THEN @ \cup {fn.conn[g]}
                                 ELSE @ \ {fn.conn[g]},
                        !.noop = @ \/ (fn.method[g] = "Add"
                                          <=> fn.conn[g] \in fn.live)]
    /\ UNCHANGED <<taskVars, sinkVars, sigLog, req, resp, tailVars,
                   allowedOrigins, up, wr, wsm, rl>>

\* wsm.connections[conn] = true, or delete(wsm.connections, conn).  With
\* another goroutine inside the lock the access is a data race, which may
\* leave any part of the set behind.
WsmWrite(g) ==
    /\ fn.op = "registry"
    /\ fn.pc[g] = "locked"
    /\ fn.method[g] \in {"Add", "Remove"}
    /\ LET inside == {h \in Goroutines : fn.pc[h] = "locked"}
           set == IF fn.method[g] = "Add"
                  THEN wsm.connections \cup {fn.conn[g]}
                  ELSE wsm.connections \ {fn.conn[g]}
       IN  IF inside = {g}
           THEN wsm' = [wsm EXCEPT !.connections = set]
           ELSE \E part \in SUBSET set : wsm' = [wsm EXCEPT !.connections = part]
    /\ fn' = [fn EXCEPT !.pc[g] = "written"]
    /\ UNCHANGED <<taskVars, sinkVars, sigLog, req, resp, tailVars,
                   allowedOrigins, up, wr, rl>>

\* The deferred wsm.mu.Unlock(), and the return.
WsmUnlock(g) ==
    /\ fn.op = "registry"
    /\ fn.pc[g] = "written"
    /\ fn' = [fn EXCEPT !.pc[g] = "idle", !.method[g] = "none", !.conn[g] = 1,
                        !.writer = IF fn.writer = g THEN 0 ELSE fn.writer]
    /\ UNCHANGED <<taskVars, sinkVars, sigLog, req, resp, tailVars,
                   allowedOrigins, up, wr, wsm, rl>>

\* Count: wsm.mu.RLock()
WsmRLock(g) ==
    /\ fn.op = "registry"
    /\ fn.pc[g] = "called"
    /\ fn.method[g] = "Count"
    /\ fn.writer = 0
    /\ wsm.pc # "loop"
    /\ fn' = [fn EXCEPT !.pc[g] = "locked", !.readers = @ + 1]
    /\ UNCHANGED <<taskVars, sinkVars, sigLog, req, resp, tailVars,
                   allowedOrigins, up, wr, wsm, rl>>

\* Count: len(wsm.connections)
WsmLen(g) ==
    /\ fn.op = "registry"
    /\ fn.pc[g] = "locked"
    /\ fn.method[g] = "Count"
    /\ fn' = [fn EXCEPT !.pc[g] = "counted",
                        !.count[g] = Cardinality(wsm.connections)]
    /\ UNCHANGED <<taskVars, sinkVars, sigLog, req, resp, tailVars,
                   allowedOrigins, up, wr, wsm, rl>>

\* Count: the deferred wsm.mu.RUnlock(), and the return.
WsmRUnlock(g) ==
    /\ fn.op = "registry"
    /\ fn.pc[g] = "counted"
    /\ fn' = [fn EXCEPT !.pc[g] = "idle", !.method[g] = "none",
                        !.count[g] = 0, !.readers = @ - 1]
    /\ UNCHANGED <<taskVars, sinkVars, sigLog, req, resp, tailVars,
                   allowedOrigins, up, wr, wsm, rl>>

RegistryNext ==
    \/ \E g \in Goroutines, m \in {"Add", "Remove", "Count"}, s \in Sinks :
          WsmCall(g, m, s)
    \/ \E g \in Goroutines : WsmLock(g)
    \/ \E g \in Goroutines : WsmWrite(g)
    \/ \E g \in Goroutines : WsmUnlock(g)
    \/ \E g \in Goroutines : WsmRLock(g)
    \/ \E g \in Goroutines : WsmLen(g)
    \/ \E g \in Goroutines : WsmRUnlock(g)

RegistrySpec == RegistryInit /\ [][RegistryNext]_vars

\* C36: whenever no Add or Remove is inside the manager, the registered
\* set is the set of the sinks added and not removed since (so that an Add
\* of a registered sink and a Remove of an unregistered one have left it
\* as it was), and what Count returns is the number of these sinks.
C36_CountIsAddedMinusRemoved ==
    fn.op = "registry" =>
        /\ fn.writer = 0 => wsm.connections = fn.live
        /\ \A g \in Goroutines :
              fn.pc[g] = "counted" => fn.count[g] = Cardinality(fn.live)

\* A call has found nothing to do, and a Count is about to return the one
\* sink that is registered.
C36_Witness ==
    /\ fn.op = "registry"
    /\ fn.noop
    /\ \E g \in Goroutines : fn.pc[g] = "counted" /\ fn.count[g] = 1

(***************************************************************************)
(* The refill rule of the rate limiter.                                    *)
(***************************************************************************)

\* C37: a request of an address is decided on its bucket after the refill:
\* a minute or more after the last refill the bucket is full again; before
\* that it has gained requestsPerMinute * elapsed / minute tokens, rounded
\* down and capped at requestsPerMinute, and its last refill moves to the
\* present only if it gained a token.  The request is served exactly if a
\* token is there, and costs it.  So an address is served again a minute
\* after its last refill at the latest, and a bucket never leaves
\* 0..requestsPerMinute.
C37_RefillRule ==
    [][IF "now" \in DOMAIN rl /\ "now" \in DOMAIN rl'
       THEN \A ip \in DOMAIN rl.burst :
              (/\ rl.requestsPerMinute > 0
               /\ rl'.burst[ip].seen = rl.burst[ip].seen + 1)
                 => LET N == rl.requestsPerMinute
                        old == IF ip \in DOMAIN rl.buckets THEN rl.buckets[ip]
                               ELSE [tokens |-> N, lastRefill |-> rl.now]
                        t == rl.now - old.lastRefill
                        gain == (N * t) \div MinuteTicks
                        filled == IF t >= MinuteTicks THEN N
                                  ELSE IF old.tokens + gain > N THEN N
                                  ELSE old.tokens + gain
                        served == rl'.burst[ip].handled = rl.burst[ip].handled + 1
                        new == rl'.buckets[ip]
                    IN  /\ served <=> filled > 0
                        /\ new.tokens = IF served THEN filled - 1 ELSE filled
                        /\ new.lastRefill = IF t >= MinuteTicks \/ gain >= 1
                                            THEN rl.now ELSE old.lastRefill
                        /\ new.tokens \in 0..N
                        /\ t >= MinuteTicks => served
       ELSE TRUE
      ]_vars

\* Less than a minute after its first request an address was served from a
\* bucket that a partial refill had brought back from empty: the bucket is
\* empty again and refilled just now, which a bucket made just now, with
\* one request served, would not be.
C37_Witness ==
    /\ "now" \in DOMAIN rl
    /\ rl.requestsPerMinute >= 2
    /\ rl.now \in 1..(MinuteTicks - 1)
    /\ \E ip \in DOMAIN rl.buckets :
          /\ rl.buckets[ip] = [tokens |-> 0, lastRefill |-> rl.now]
          /\ rl.burst[ip] = [seen |-> 1, handled |-> 1, refused |-> 0]

(***************************************************************************)
(* The cleanup of old buckets, next to a limiter that keeps every bucket.  *)
(***************************************************************************)

\* 10*time.Minute, in clock ticks.
CleanupAge == 10 * MinuteTicks

\* A cleanup that deletes every bucket not refilled at this very moment.
cleanupEveryOldBucket(limiter, now) ==
    [ip \in {k \in DOMAIN limiter.buckets :
                ~(now - limiter.buckets[k].lastRefill > 0)}
        |-> limiter.buckets[ip]]

\* One round of the cleanup loop: the buckets that remain.
cleanup(limiter, now) ==
    [ip \in {k \in DOMAIN limiter.buckets :
                ~(now - limiter.buckets[k].lastRefill > CleanupAge)}
        |-> limiter.buckets[ip]]

\* Two limiters of the same rate are sent the same requests (without proxy
\* headers) at the same times; rl.buckets is cleaned up, rl.kept never.  last holds the latest
\* request's address, the verdicts of the two limiters on it, and whether
\* the bucket of the address had been deleted.
CleanInit ==
    /\ runningTasks = <<>>
    /\ dirs = {}
    /\ usedIds = {}
    /\ attached = [c \in Conns |-> ""]
    /\ req = NoReq
    /\ resp = NoResp
    /\ proc = <<>>
    /\ age = <<>>
    /\ sigLog = [t \in IdPool |-> <<>>]
    /\ eng = [c \in Conns |-> NoEngine]
    /\ frames = [c \in Conns |-> <<>>]
    /\ file = NoFile
    /\ tail = NoTail
    /\ emitted = <<>>
    /\ allowedOrigins = <<>>
    /\ up = TRUE
    /\ wr = [c \in Conns |-> NoWriter]
    /\ fn = NoFn
    /\ wsm = NoWsm
    /\ \E N \in -1..MaxRate :
           rl = [requestsPerMinute |-> N, buckets |-> <<>>, kept |-> <<>>,
                 now |-> 0,
                 last |-> [ip |-> "", ok |-> TRUE, okKept |-> TRUE,
                           deleted |-> FALSE]]

\* Allow(r) on both limiters.
CleanAllow(r) ==
    /\ "kept" \in DOMAIN rl
    /\ LET a == Allow(rl, r, rl.now)
           b == Allow([rl EXCEPT !.buckets = rl.kept], r, rl.now)
       IN  rl' = [rl EXCEPT !.buckets = a.buckets, !.kept = b.buckets,
                            !.last = [ip |-> getIP(r), ok |-> a.ok,
                                      okKept |-> b.ok,
                                      deleted |-> getIP(r) \in
                                          DOMAIN rl.kept \ DOMAIN rl.buckets]]
    /\ UNCHANGED <<taskVars, sinkVars, sigLog, req, resp, tailVars,
                   allowedOrigins, up, wr, fn, wsm>>

\* The ticker of the cleanup goroutine fires.
CleanupRound ==
    /\ "kept" \in DOMAIN rl
    /\ rl' = [rl EXCEPT !.buckets = cleanup(rl, rl.now)]
    /\ UNCHANGED <<taskVars, sinkVars, sigLog, req, resp, tailVars,
                   allowedOrigins, up, wr, fn, wsm>>

\* Time passes: a tick, a minute, or the age at which buckets are deleted.
CleanTick(d) ==
    /\ "kept" \in DOMAIN rl
    /\ rl.now + d <= CleanupAge + 2
    /\ rl' = [rl EXCEPT !.now = @ + d]
    /\ UNCHANGED <<taskVars, sinkVars, sigLog, req, resp, tailVars,
                   allowedOrigins, up, wr, fn, wsm>>

CleanNext ==
    \/ \E r \in {q \in RlRequests : q.xff = "" /\ q.xri = ""} : CleanAllow(r)
    \/ CleanupRound
    \/ \E d \in {1, MinuteTicks, CleanupAge} : CleanTick(d)

CleanSpec == CleanInit /\ [][CleanNext]_vars

\* C38: the limiter whose old buckets are deleted gives every request the
\* verdict that the limiter keeping all buckets gives it, and leaves the
\* bucket of the request's address as that one does.
C38_CleanupUnobservable ==
    ("kept" \in DOMAIN rl /\ rl.last.ip # "") =>
        /\ rl.last.ok = rl.last.okKept
        /\ rl.last.ip \in DOMAIN rl.buckets
              => (/\ rl.last.ip \in DOMAIN rl.kept
                  /\ rl.buckets[rl.last.ip] = rl.kept[rl.last.ip])

\* A request was served for an address whose bucket had been deleted.
C38_Witness ==
    /\ "kept" \in DOMAIN rl
    /\ rl.requestsPerMinute > 0
    /\ rl.last.deleted
    /\ rl.last.ok
    /\ rl.last.ip \in DOMAIN rl.buckets

(***************************************************************************)
(* substituteParameters and the order in which the map is walked.          *)
(***************************************************************************)

MaxPieces == 5

\* Command templates: up to MaxPieces pieces, each an opening or a closing
\* pair of braces or a letter.
RECURSIVE TemplatesUpTo(_)
TemplatesUpTo(n) ==
    IF n = 0 THEN {<<>>}
    ELSE LET shorter == TemplatesUpTo(n - 1)
         IN  shorter \cup {t \o p : t \in shorter,
                                   p \in {<<"{", "{">>, <<"}", "}">>, <<"a">>}}

\* The names of the parameters, and the values validation lets through
\* for them: both are strings over [-a-zA-Z0-9_:,.].
SubstNames == {<<"a">>, <<"a", "a">>}
SubstValues == {v \in {<<"a">>, <<"a", "a">>} : MatchesAll(v, StringParamChars)}
SubstMaps == UNION {[S -> SubstValues] : S \in SUBSET SubstNames}

\* strings.ReplaceAll(s, old, new), old not empty: the occurrences of old
\* are replaced from the left, without overlap.
RECURSIVE ReplaceAll(_, _, _)
ReplaceAll(s, old, new) ==
    IF Len(s) < Len(old) THEN s
    ELSE IF SubSeq(s, 1, Len(old)) = old
    THEN new \o ReplaceAll(SubSeq(s, Len(old) + 1, Len(s)), old, new)
    ELSE <<s[1]>> \o ReplaceAll(Tail(s), old, new)

\* fmt.Sprintf("{{%s}}", paramName)
Placeholder(paramName) == <<"{", "{">> \o paramName \o <<"}", "}">>

\* substituteParameters(command, parameters) is called.
SubstInit ==
    /\ InitCommon
    /\ allowedOrigins = <<>>
    /\ fn \in {[op |-> "substitute", command |-> c, parameters |-> pm,
                result |-> c, todo |-> DOMAIN pm, done |-> FALSE] :
                   c \in TemplatesUpTo(MaxPieces), pm \in SubstMaps}

\* One round of the loop over the map, which hands out the entries in an
\* order of its own choosing.
SubstRound(paramName) ==
    /\ fn.op = "substitute"
    /\ paramName \in fn.todo
    /\ fn' = [fn EXCEPT !.result = ReplaceAll(@, Placeholder(paramName),
                                              fn.parameters[paramName]),
                        !.todo = @ \ {paramName}]
    /\ UNCHANGED <<taskVars, sinkVars, sigLog, req, resp, tailVars,
                   allowedOrigins, up, wr, wsm, rl>>

\* return result
SubstReturn ==
    /\ fn.op = "substitute"
    /\ fn.todo = {}
    /\ ~fn.done
    /\ fn' = [fn EXCEPT !.done = TRUE]
    /\ UNCHANGED <<taskVars, sinkVars, sigLog, req, resp, tailVars,
                   allowedOrigins, up, wr, wsm, rl>>

SubstNext ==
    \/ \E n \in SubstNames : SubstRound(n)
    \/ SubstReturn

SubstSpec == SubstInit /\ [][SubstNext]_vars

\* The command when the entries are taken shortest name first.
RECURSIVE SubstituteShortestFirst(_, _)
SubstituteShortestFirst(command, parameters) ==
    IF DOMAIN parameters = {} THEN command
    ELSE LET n == CHOOSE k \in DOMAIN parameters :
                     \A j \in DOMAIN parameters : Len(k) <= Len(j)
         IN  SubstituteShortestFirst(
                 ReplaceAll(command, Placeholder(n), parameters[n]),
                 [k \in DOMAIN parameters \ {n} |-> parameters[k]])

\* C39: for a validated parameter map the command that substitution
\* returns does not depend on the order in which the map was walked: it is
\* the command of one fixed order.
C39_SubstitutionOrderIndependent ==
    (fn.op = "substitute" /\ fn.done)
        => fn.result = SubstituteShortestFirst(fn.command, fn.parameters)

(***************************************************************************)
(* wsm.mu and the mutexes of the connections: who waits for whom.          *)
(***************************************************************************)

\* The connections that are registered at one time or another: two of
\* them, so that the broadcast has a connection to wait for and another.
LockSinks == {c \in Sinks : c <= 2}

\* The manager, a goroutine that calls Add, Remove and Count, a tailer
\* writing on every registered connection, and the broadcast.
LocksInit ==
    /\ runningTasks = <<>>
    /\ dirs = {}
    /\ usedIds = {}
    /\ attached = [c \in Sinks |-> ""]
    /\ req = NoReq
    /\ resp = NoResp
    /\ proc = <<>>
    /\ age = <<>>
    /\ sigLog = [t \in IdPool |-> <<>>]
    /\ eng = [c \in Sinks |-> NoEngine]
    /\ frames = [c \in Sinks |-> <<>>]
    /\ file = NoFile
    /\ tail = NoTail
    /\ emitted = <<>>
    /\ allowedOrigins = <<>>
    /\ up = TRUE
    /\ wr = [c \in Sinks |-> NoWriter]
    /\ fn = [op |-> "registry", pc |-> [g \in Goroutines |-> "idle"],
             method |-> [g \in Goroutines |-> "none"],
             conn |-> [g \in Goroutines |-> 1],
             writer |-> 0, readers |-> 0,
             count |-> [g \in Goroutines |-> 0], live |-> {},
             noop |-> FALSE]
    /\ wsm = NoWsm
    /\ rl = NoRl

\* The steps of the goroutine that calls the manager, once it has called.
ManagerSteps ==
    \/ WsmLock(1)
    \/ WsmWrite(1)
    \/ WsmUnlock(1)
    \/ WsmRLock(1)
    \/ WsmLen(1)
    \/ WsmRUnlock(1)

\* The steps of the writers and of the broadcast, once they have begun.
WriterSteps ==
    \/ \E c \in Sinks, p \in {"stdout", "shutdown"} : MuLock(c, p)
    \/ \E c \in Sinks, p \in {"stdout", "shutdown"} : ConnWrite(c, p)
    \/ \E c \in Sinks : ConnWriteReturn(c, "stdout")
    \/ \E c \in Sinks : MuUnlock(c, "stdout")
    \/ \E c \in Sinks : BcPick(c)
    \/ \E c \in Sinks, ok \in BOOLEAN : BcWriteReturn(c, ok)
    \/ BcEnd

LocksNext ==
    \/ \E m \in {"Add", "Remove", "Count"}, s \in LockSinks : WsmCall(1, m, s)
    \/ \E c \in wsm.connections : Call(c, "stdout")
    \/ BcBegin
    \/ ManagerSteps
    \/ WriterSteps

LocksSpec == LocksInit /\ [][LocksNext]_vars

\* Every write on a connection returns, every goroutine that can go on
\* does so, and a mutex that is free again and again is given to each of
\* those that wait for it.  Nothing obliges anyone to call the manager, to
\* write or to shut the server down.
LocksFair ==
    /\ LocksSpec
    /\ WF_vars(ManagerSteps)
    /\ WF_vars(BcEnd)
    /\ \A c \in Sinks :
          /\ WF_vars(BcPick(c))
          /\ SF_vars(MuLock(c, "shutdown"))
          /\ WF_vars(ConnWrite(c, "shutdown"))
          /\ WF_vars(\E ok \in BOOLEAN : BcWriteReturn(c, ok))
          /\ SF_vars(MuLock(c, "stdout"))
          /\ WF_vars(ConnWrite(c, "stdout"))
          /\ WF_vars(ConnWriteReturn(c, "stdout"))
          /\ WF_vars(MuUnlock(c, "stdout"))

\* Somebody waits for a lock or is inside one.
Busy ==
    \/ fn.pc[1] # "idle"
    \/ wsm.pc = "loop"
    \/ \E c \in Sinks, p \in {"stdout", "shutdown"} : wr[c].pc[p] # "idle"

\* C40: nobody who holds the mutex of a connection waits for wsm.mu; as
\* long as anybody waits for a lock or holds one, one of the goroutines
\* can take a step (no deadlock between the broadcast, Add, Remove, Count
\* and the writers); and a broadcast that has begun returns, every write
\* on a connection returning.
C40_NoDeadlockAndBroadcastReturns ==
    /\ [](\A c \in Sinks : wr[c].mu = "shutdown" => wsm.pc = "loop")
    /\ [](Busy => ENABLED (ManagerSteps \/ WriterSteps))
    /\ (wsm.pc = "loop") ~> (wsm.pc = "returned")

\* The broadcast holds wsm.mu and waits for the mutex of a connection on
\* which a tailer is writing, while a goroutine waits for wsm.mu.
C40_Witness ==
    /\ fn.op = "registry"
    /\ wsm.pc = "loop"
    /\ fn.pc[1] = "called"
    /\ \E c \in Sinks : /\ wr[c].pc["shutdown"] = "want"
                        /\ wr[c].pc["stdout"] = "writing"

====
